---- MODULE Spec2Model ----
(***************************************************************************)
(* A model of unityconnector.py: the reconciliation of a views manifest    *)
(* against the canonical camera views, the collection of the images of the *)
(* selected objects, the batching of the selections and the encoding of    *)
(* each batch for the downstream pipeline, together with main(), which     *)
(* runs them in sequence.                                                  *)
(*                                                                         *)
(* Python values are modelled as follows.                                  *)
(*   - A str that the code only compares (a view name) is a TLA+ string.   *)
(*     A str that the code inspects (a file name, an object name) is a     *)
(*     sequence of one-character strings.  A text that the code only       *)
(*     assembles (a prompt, the text of a JSON file) is a sequence of      *)
(*     fragments, each a TLA+ string, and is empty iff the sequence is.    *)
(*     bytes are sequences of 0..255.                                      *)
(*   - A JSON value that may or may not be a str is a record               *)
(*     [tag, val] with tag "str", "nonstr" (the model's only non-str       *)
(*     value is None) or "absent" (the key is not in the dict).            *)
(*   - A dict is a function on the set of its keys.                        *)
(***************************************************************************)
EXTENDS Integers, Sequences, FiniteSets, TLC

VARIABLES
    fn,             \* the function that is applied ("main" for a whole run)
    args,           \* the arguments of a function applied on its own
    ret,            \* the value it returned, NoRet before it returns
    pc,             \* the position reached in the function
    \* the world main() runs in
    files,          \* the files under the group directory: path -> bytes
    scene_file,     \* the scene export as main() found it
    manifest_file,  \* views_manifest.json as main() found it
    \* the locals of main()
    description,
    object_interactions,        \* the requested names (the keys, in order)
    scene_json_text,
    manifest_loaded,
    views_manifest_text,
    manifest_objects,
    selected_manifest_objects,
    object_selections,
    batches,
    index,          \* the number of the batch in hand, from 1
    build,          \* the locals of _build_input_items for the batch in hand
    \* what the run has done to the outside
    reads,          \* the paths read with read_bytes, in order
    uploads,        \* the calls of client.files.create, in order
    pipeline,       \* the calls of run_vivian, in order
    exit_status     \* <<>> while running, <<n>> once the process has ended

callVars == <<fn, args, ret, pc>>
worldVars == <<files, scene_file, manifest_file>>
mainVars ==
    <<description, object_interactions, scene_json_text, manifest_loaded,
      views_manifest_text, manifest_objects, selected_manifest_objects,
      object_selections, batches, index, build>>
traceVars == <<reads, uploads, pipeline, exit_status>>

vars == <<callVars, worldVars, mainVars, traceVars>>

NoRet == [pending |-> TRUE]

----------------------------------------------------------------------------
(* Sequence helpers.                                                       *)

Range(s) == {s[i] : i \in DOMAIN s}

SeqsUpTo(S, n) == UNION {[1..k -> S] : k \in 0..n}

RECURSIVE Concat(_)
Concat(ss) == IF ss = <<>> THEN <<>> ELSE Head(ss) \o Concat(Tail(ss))

\* s without the later occurrences of its elements: the keys of a dict
\* filled in the order of s.
RECURSIVE DictKeysOf(_)
DictKeysOf(s) ==
    IF s = <<>> THEN <<>>
    ELSE LET front == DictKeysOf(SubSeq(s, 1, Len(s) - 1))
             last == s[Len(s)]
         IN  IF last \in Range(front) THEN front ELSE Append(front, last)

----------------------------------------------------------------------------
(* Python values.                                                          *)

NameStr(s) == [tag |-> "str", val |-> s]
NameNone == [tag |-> "nonstr", val |-> ""]
NameAbsent == [tag |-> "absent", val |-> ""]

Str(s) == [tag |-> "str", val |-> s]
None == [tag |-> "nonstr", val |-> <<>>]
Absent == [tag |-> "absent", val |-> <<>>]

\* isinstance(v, str)
IsStr(v) == v.tag = "str"

\* d.get(key): None when the key is absent
DictGet(v, none) == IF v.tag = "absent" THEN none ELSE v

----------------------------------------------------------------------------
(* Characters and str methods.                                             *)

UpperLetters ==
    <<"A","B","C","D","E","F","G","H","I","J","K","L","M",
      "N","O","P","Q","R","S","T","U","V","W","X","Y","Z">>
LowerLetters ==
    <<"a","b","c","d","e","f","g","h","i","j","k","l","m",
      "n","o","p","q","r","s","t","u","v","w","x","y","z">>

LowerChar(c) ==
    IF \E i \in DOMAIN UpperLetters : UpperLetters[i] = c
    THEN LowerLetters[CHOOSE i \in DOMAIN UpperLetters : UpperLetters[i] = c]
    ELSE c

\* str.lower()
StrLower(s) == [i \in DOMAIN s |-> LowerChar(s[i])]

\* str.endswith(suffix)
EndsWith(s, suffix) ==
    /\ Len(s) >= Len(suffix)
    /\ SubSeq(s, Len(s) - Len(suffix) + 1, Len(s)) = suffix

\* sub in s
Contains(s, sub) ==
    \E i \in 1..(Len(s) - Len(sub) + 1) : SubSeq(s, i, i + Len(sub) - 1) = sub

----------------------------------------------------------------------------
(* Module constants.                                                       *)

ORDERED_VIEW_NAMES ==
    <<"front", "back", "left", "right", "top", "bottom",
      "iso_top_left", "iso_top_right">>

RGB_SUFFIX_BLACKLIST ==
    << <<"_","s","e","g">>,
       <<"_","d","e","p","t","h">>,
       <<"_","n","o","r","m","a","l">> >>

MAX_OBJECTS_PER_RUN == 2

PngSuffix == <<".","p","n","g">>

----------------------------------------------------------------------------
(* _is_rgb_view_file                                                       *)

\* Mutant: the blacklist is looked for in the base name only.
IsRgbViewFileBaseNameOnly(file_name) ==
    IF ~IsStr(file_name) THEN FALSE
    ELSE LET lowered == StrLower(file_name.val)
             slashes == {i \in DOMAIN lowered : lowered[i] = "/"}
             start == IF slashes = {} THEN 1
                      ELSE 1 + CHOOSE i \in slashes : \A j \in slashes : j <= i
             base == SubSeq(lowered, start, Len(lowered))
         IN  IF ~EndsWith(lowered, PngSuffix) THEN FALSE
             ELSE ~(\E k \in DOMAIN RGB_SUFFIX_BLACKLIST :
                        Contains(base, RGB_SUFFIX_BLACKLIST[k]))

IsRgbViewFile(file_name) ==
    IF ~IsStr(file_name) THEN FALSE
    ELSE LET lowered == StrLower(file_name.val) IN
         IF ~EndsWith(lowered, PngSuffix) THEN FALSE
         ELSE ~(\E k \in DOMAIN RGB_SUFFIX_BLACKLIST :
                    Contains(lowered, RGB_SUFFIX_BLACKLIST[k]))

----------------------------------------------------------------------------
(* _select_ordered_views                                                   *)

\* A view entry of the manifest: a dict with the keys viewName and file, or
\* something that is not a dict.
ViewEntry(name, file) == [isDict |-> TRUE, viewName |-> name, file |-> file]
NotADict == [isDict |-> FALSE, viewName |-> NameAbsent, file |-> Absent]

\* Mutant: a later entry with the same name replaces the earlier one.
ViewByNameStepLastWins(view_by_name, view) ==
    LET view_name == IF view.isDict THEN DictGet(view.viewName, NameNone)
                     ELSE NameNone
    IN  IF IsStr(view_name)
        THEN [k \in DOMAIN view_by_name \cup {view_name.val} |->
                 IF k = view_name.val THEN view ELSE view_by_name[k]]
        ELSE view_by_name

\* Mutant: an entry is only kept under its name if its file is a str.
ViewByNameStepNeedsFile(view_by_name, view) ==
    LET view_name == IF view.isDict THEN DictGet(view.viewName, NameNone)
                     ELSE NameNone
    IN  IF /\ IsStr(view_name)
           /\ IsStr(view.file)
           /\ view_name.val \notin DOMAIN view_by_name
        THEN view_by_name @@ (view_name.val :> view)
        ELSE view_by_name

\* One iteration of the loop that fills view_by_name.
ViewByNameStep(view_by_name, view) ==
    LET view_name == IF view.isDict THEN DictGet(view.viewName, NameNone)
                     ELSE NameNone
    IN  IF IsStr(view_name) /\ view_name.val \notin DOMAIN view_by_name
        THEN view_by_name @@ (view_name.val :> view)
        ELSE view_by_name

RECURSIVE ViewByName(_, _)
ViewByName(view_by_name, views) ==
    IF views = <<>> THEN view_by_name
    ELSE ViewByName(ViewByNameStep(view_by_name, Head(views)), Tail(views))

EmptyDict == [k \in {} |-> NameNone]

\* [name for name in names if P(name)]
RECURSIVE Filter(_, _)
Filter(names, keep) ==
    IF names = <<>> THEN <<>>
    ELSE IF Head(names) \in keep
         THEN <<Head(names)>> \o Filter(Tail(names), keep)
         ELSE Filter(Tail(names), keep)

\* Mutant: found keeps the order of the input instead of the canonical one.
SelectOrderedViewsInputOrder(views) ==
    LET view_by_name == ViewByName(EmptyDict, views)
        names == [i \in DOMAIN views |->
                     IF views[i].isDict /\ IsStr(views[i].viewName)
                     THEN views[i].viewName.val ELSE ""]
        found == DictKeysOf(Filter(names, Range(ORDERED_VIEW_NAMES)))
        missing == Filter(ORDERED_VIEW_NAMES,
                          Range(ORDERED_VIEW_NAMES) \ DOMAIN view_by_name)
        ordered_views == [i \in DOMAIN found |-> view_by_name[found[i]]]
    IN  [ordered_views |-> ordered_views, found |-> found, missing |-> missing]

\* Mutant: ordered_views lists the canonical entries of view_by_name in the
\* order they were put in.
SelectOrderedViewsDictOrder(views) ==
    LET view_by_name == ViewByName(EmptyDict, views)
        found == Filter(ORDERED_VIEW_NAMES, DOMAIN view_by_name)
        missing == Filter(ORDERED_VIEW_NAMES,
                          Range(ORDERED_VIEW_NAMES) \ DOMAIN view_by_name)
        names == [i \in DOMAIN views |->
                     IF views[i].isDict /\ IsStr(views[i].viewName)
                     THEN views[i].viewName.val ELSE ""]
        keys == DictKeysOf(Filter(names, Range(ORDERED_VIEW_NAMES)))
        ordered_views == [i \in DOMAIN keys |-> view_by_name[keys[i]]]
    IN  [ordered_views |-> ordered_views, found |-> found, missing |-> missing]

\* Mutant: missing lists every canonical name.
SelectOrderedViewsAllMissing(views) ==
    LET view_by_name == ViewByName(EmptyDict, views)
        found == Filter(ORDERED_VIEW_NAMES, DOMAIN view_by_name)
        ordered_views == [i \in DOMAIN found |-> view_by_name[found[i]]]
    IN  [ordered_views |-> ordered_views, found |-> found,
         missing |-> ORDERED_VIEW_NAMES]

SelectOrderedViews(views) ==
    LET view_by_name == ViewByName(EmptyDict, views)
        found == Filter(ORDERED_VIEW_NAMES, DOMAIN view_by_name)
        missing == Filter(ORDERED_VIEW_NAMES,
                          Range(ORDERED_VIEW_NAMES) \ DOMAIN view_by_name)
        ordered_views == [i \in DOMAIN found |-> view_by_name[found[i]]]
    IN  [ordered_views |-> ordered_views, found |-> found, missing |-> missing]

----------------------------------------------------------------------------
(* The file system: a function from the paths that exist to their bytes.   *)

\* Path.__truediv__: an absolute right operand replaces the left one.
PathJoin(dir, file_name) ==
    IF file_name # <<>> /\ Head(file_name) = "/" THEN file_name
    ELSE dir \o <<"/">> \o file_name

\* Path.exists()
PathExists(fs, path) == path \in DOMAIN fs

\* Path.read_bytes()
ReadBytes(fs, path) == fs[path]

----------------------------------------------------------------------------
(* _collect_object_images                                                  *)

ImagePng == <<"i","m","a","g","e","/","p","n","g">>

ImagePayload(object_name, view_name, filename, mime_type, content) ==
    [object_name |-> object_name, view_name |-> view_name,
     filename |-> filename, mime_type |-> mime_type, content |-> content]

ObjectImageSelection(object_name, found_views, missing_views, images, missing_files, skipped_views) ==
    [object_name |-> object_name, found_views |-> found_views,
     missing_views |-> missing_views, images |-> images,
     missing_files |-> missing_files, skipped_views |-> skipped_views]

\* A manifest object: a dict with objectName and views, where views is a list
\* (tag "list"), some other value (tag "nonlist") or absent; or an entry of
\* the objects list that is not a dict.
ManifestObject(name, views) ==
    [isDict |-> TRUE, objectName |-> name, stableId |-> TRUE, views |-> views]
ViewList(views) == [tag |-> "list", val |-> views]
ViewsNone == [tag |-> "nonlist", val |-> <<>>]
ViewsAbsent == [tag |-> "absent", val |-> <<>>]

UnnamedObject == <<"U","n","n","a","m","e","d","O","b","j","e","c","t">>

\* obj.get("objectName") or "UnnamedObject"
ObjectNameOf(obj) ==
    IF IsStr(obj.objectName) /\ obj.objectName.val # <<>>
    THEN obj.objectName.val
    ELSE UnnamedObject

\* The locals of the loop over ordered_views, with the calls it makes on the
\* file system (exists: the paths tested, reads: the paths read).
CollectStart ==
    [images |-> <<>>, missing_files |-> <<>>, skipped_views |-> <<>>,
     exists |-> <<>>, reads |-> <<>>]

\* Mutant: a file that is not there is recorded under its view name.
CollectStepMissingByView(acc, fs, group_dir, object_name, view) ==
    LET view_name == DictGet(view.viewName, NameNone)
        file_name == DictGet(view.file, None)
    IN  IF ~IsStr(view_name) \/ ~IsStr(file_name) THEN acc
        ELSE IF ~IsRgbViewFile(file_name)
        THEN [acc EXCEPT !.skipped_views = Append(@, view_name.val)]
        ELSE LET image_path == PathJoin(group_dir, file_name.val) IN
             IF ~PathExists(fs, image_path)
             THEN [acc EXCEPT !.skipped_views = Append(@, view_name.val),
                              !.exists = Append(@, image_path)]
             ELSE [acc EXCEPT
                      !.images = Append(@, ImagePayload(
                          object_name, view_name.val, file_name.val,
                          ImagePng, ReadBytes(fs, image_path))),
                      !.exists = Append(@, image_path),
                      !.reads = Append(@, image_path)]

\* Mutant: a view that the classifier rejects is recorded as skipped and
\* loaded all the same.
CollectStepLoadsSkipped(acc, fs, group_dir, object_name, view) ==
    LET view_name == DictGet(view.viewName, NameNone)
        file_name == DictGet(view.file, None)
    IN  IF ~IsStr(view_name) \/ ~IsStr(file_name) THEN acc
        ELSE LET image_path == PathJoin(group_dir, file_name.val)
                 acc1 == IF ~IsRgbViewFile(file_name)
                         THEN [acc EXCEPT !.skipped_views = Append(@, view_name.val)]
                         ELSE acc
             IN  IF ~PathExists(fs, image_path)
                 THEN [acc1 EXCEPT !.missing_files = Append(@, file_name.val),
                                   !.exists = Append(@, image_path)]
                 ELSE [acc1 EXCEPT
                          !.images = Append(@, ImagePayload(
                              object_name, view_name.val, file_name.val,
                              ImagePng, ReadBytes(fs, image_path))),
                          !.exists = Append(@, image_path),
                          !.reads = Append(@, image_path)]

\* Mutant: a file that is not a str is handed to the classifier, which
\* rejects it, and the view is recorded as skipped.
CollectStepNoTypeCheck(acc, fs, group_dir, object_name, view) ==
    LET view_name == DictGet(view.viewName, NameNone)
        file_name == DictGet(view.file, None)
    IN  IF ~IsStr(view_name) THEN acc
        ELSE IF ~IsRgbViewFile(file_name)
        THEN [acc EXCEPT !.skipped_views = Append(@, view_name.val)]
        ELSE LET image_path == PathJoin(group_dir, file_name.val) IN
             IF ~PathExists(fs, image_path)
             THEN [acc EXCEPT !.missing_files = Append(@, file_name.val),
                              !.exists = Append(@, image_path)]
             ELSE [acc EXCEPT
                      !.images = Append(@, ImagePayload(
                          object_name, view_name.val, file_name.val,
                          ImagePng, ReadBytes(fs, image_path))),
                      !.exists = Append(@, image_path),
                      !.reads = Append(@, image_path)]

\* One iteration of the loop over ordered_views.
CollectStep(acc, fs, group_dir, object_name, view) ==
    LET view_name == DictGet(view.viewName, NameNone)
        file_name == DictGet(view.file, None)
    IN  IF ~IsStr(view_name) \/ ~IsStr(file_name) THEN acc
        ELSE IF ~IsRgbViewFile(file_name)
        THEN [acc EXCEPT !.skipped_views = Append(@, view_name.val)]
        ELSE LET image_path == PathJoin(group_dir, file_name.val) IN
             IF ~PathExists(fs, image_path)
             THEN [acc EXCEPT !.missing_files = Append(@, file_name.val),
                              !.exists = Append(@, image_path)]
             ELSE [acc EXCEPT
                      !.images = Append(@, ImagePayload(
                          object_name, view_name.val, file_name.val,
                          ImagePng, ReadBytes(fs, image_path))),
                      !.exists = Append(@, image_path),
                      !.reads = Append(@, image_path)]

RECURSIVE CollectLoop(_, _, _, _, _)
CollectLoop(acc, fs, group_dir, object_name, ordered_views) ==
    IF ordered_views = <<>> THEN acc
    ELSE CollectLoop(
            CollectStep(acc, fs, group_dir, object_name, Head(ordered_views)),
            fs, group_dir, object_name, Tail(ordered_views))

\* The selection returned, with the file-system calls made on the way.
\* Mutant: an object without a list of views gets a selection of empty
\* lists, missing_views too.
CollectRunNothingMissing(fs, group_dir, obj) ==
    LET object_name == ObjectNameOf(obj)
        views == DictGet(obj.views, ViewsNone)
    IN  IF views.tag # "list"
        THEN [selection |-> ObjectImageSelection(
                  object_name, <<>>, <<>>, <<>>, <<>>, <<>>),
              exists |-> <<>>, reads |-> <<>>]
        ELSE LET sel == SelectOrderedViews(views.val)
                 acc == CollectLoop(CollectStart, fs, group_dir, object_name,
                                    sel.ordered_views)
             IN  [selection |-> ObjectImageSelection(
                      object_name, sel.found, sel.missing, acc.images,
                      acc.missing_files, acc.skipped_views),
                  exists |-> acc.exists, reads |-> acc.reads]

CollectRun(fs, group_dir, obj) ==
    LET object_name == ObjectNameOf(obj)
        views == DictGet(obj.views, ViewsNone)
    IN  IF views.tag # "list"
        THEN [selection |-> ObjectImageSelection(
                  object_name, <<>>, ORDERED_VIEW_NAMES, <<>>, <<>>, <<>>),
              exists |-> <<>>, reads |-> <<>>]
        ELSE LET sel == SelectOrderedViews(views.val)
                 acc == CollectLoop(CollectStart, fs, group_dir, object_name,
                                    sel.ordered_views)
             IN  [selection |-> ObjectImageSelection(
                      object_name, sel.found, sel.missing, acc.images,
                      acc.missing_files, acc.skipped_views),
                  exists |-> acc.exists, reads |-> acc.reads]

CollectObjectImages(fs, group_dir, obj) == CollectRun(fs, group_dir, obj).selection

----------------------------------------------------------------------------
(* _select_manifest_objects                                                *)

NotADictObject ==
    [isDict |-> FALSE, objectName |-> Absent, stableId |-> FALSE, views |-> ViewsAbsent]

\* Mutant: the first object of a name is the one kept under it.
RECURSIVE ByNameFirstWins(_, _)
ByNameFirstWins(by_name, objs) ==
    IF objs = <<>> THEN by_name
    ELSE LET obj == Head(objs)
             key == DictGet(obj.objectName, None)
         IN  ByNameFirstWins(IF obj.isDict /\ key \notin DOMAIN by_name
                             THEN [k \in DOMAIN by_name \cup {key} |->
                                      IF k = key THEN obj ELSE by_name[k]]
                             ELSE by_name,
                             Tail(objs))

\* {obj.get("objectName"): obj for obj in manifest_objects if isinstance(obj, dict)}:
\* a later object with the same key replaces the earlier one.  The keys are
\* the values of objectName, None for an absent or null one.
RECURSIVE ByName(_, _)
ByName(by_name, objs) ==
    IF objs = <<>> THEN by_name
    ELSE LET obj == Head(objs)
             key == DictGet(obj.objectName, None)
         IN  ByName(IF obj.isDict
                    THEN [k \in DOMAIN by_name \cup {key} |->
                             IF k = key THEN obj ELSE by_name[k]]
                    ELSE by_name,
                    Tail(objs))

\* Mutant: a requested name that matches nothing is not recorded.
SelectStepForgetsMissing(acc, by_name, name) ==
    IF Str(name) \notin DOMAIN by_name
    THEN acc
    ELSE [acc EXCEPT !.selected = Append(@, by_name[Str(name)])]

\* One iteration of the loop over requested_names.
SelectStep(acc, by_name, name) ==
    IF Str(name) \notin DOMAIN by_name
    THEN [acc EXCEPT !.missing = Append(@, name)]
    ELSE [acc EXCEPT !.selected = Append(@, by_name[Str(name)])]

RECURSIVE SelectLoop(_, _, _)
SelectLoop(acc, by_name, requested_names) ==
    IF requested_names = <<>> THEN acc
    ELSE SelectLoop(SelectStep(acc, by_name, Head(requested_names)),
                    by_name, Tail(requested_names))

\* Mutant: with no requested name, only the entries that are objects are
\* returned.
SelectManifestObjectsOnlyDicts(objs, requested_names) ==
    IF requested_names = <<>>
    THEN [selected |-> SelectSeq(objs, LAMBDA obj : obj.isDict), missing |-> <<>>]
    ELSE SelectLoop([selected |-> <<>>, missing |-> <<>>],
                    ByName([k \in {} |-> NotADictObject], objs),
                    requested_names)

SelectManifestObjects(objs, requested_names) ==
    IF requested_names = <<>>
    THEN [selected |-> objs, missing |-> <<>>]
    ELSE SelectLoop([selected |-> <<>>, missing |-> <<>>],
                    ByName([k \in {} |-> NotADictObject], objs),
                    requested_names)

----------------------------------------------------------------------------
(* _chunk_objects                                                          *)

Min(a, b) == IF a <= b THEN a ELSE b

\* items[lo : hi] for 0 <= lo: Python clamps hi to len(items)
Slice(items, lo, hi) == SubSeq(items, lo + 1, Min(hi, Len(items)))

\* range(0, n, step) for step > 0, as the sequence of its values
RangeStep(n, step) == [k \in 1..((n + step - 1) \div step) |-> (k - 1) * step]

\* Mutant: the last, shorter chunk is left out.
ChunkObjectsFullOnly(items, chunk_size) ==
    IF chunk_size <= 0 THEN <<items>>
    ELSE [k \in 1..(Len(items) \div chunk_size) |->
             Slice(items, (k - 1) * chunk_size, k * chunk_size)]

ChunkObjects(items, chunk_size) ==
    IF chunk_size <= 0 THEN <<items>>
    ELSE LET idxs == RangeStep(Len(items), chunk_size)
         IN  [k \in DOMAIN idxs |-> Slice(items, idxs[k], idxs[k] + chunk_size)]

----------------------------------------------------------------------------
(* _build_base64_image_items                                               *)

Digits == <<"0","1","2","3","4","5","6","7","8","9">>

\* The alphabet of RFC 4648, 6-bit value v at position v + 1.
B64Alphabet == UpperLetters \o LowerLetters \o Digits \o <<"+", "/">>

B64Char(v) == B64Alphabet[v + 1]

\* base64.b64encode(content).decode("ascii")
RECURSIVE B64Encode(_)
B64Encode(content) ==
    IF content = <<>> THEN <<>>
    ELSE IF Len(content) = 1
    THEN <<B64Char(content[1] \div 4), B64Char((content[1] % 4) * 16), "=", "=">>
    ELSE IF Len(content) = 2
    THEN <<B64Char(content[1] \div 4),
           B64Char((content[1] % 4) * 16 + content[2] \div 16),
           B64Char((content[2] % 16) * 4), "=">>
    ELSE <<B64Char(content[1] \div 4),
           B64Char((content[1] % 4) * 16 + content[2] \div 16),
           B64Char((content[2] % 16) * 4 + content[3] \div 64),
           B64Char(content[3] % 64)>>
         \o B64Encode(SubSeq(content, 4, Len(content)))

\* f"data:{image.mime_type};base64,{encoded}"
DataUrl(image) ==
    <<"d","a","t","a",":">> \o image.mime_type
        \o <<";","b","a","s","e","6","4",",">> \o B64Encode(image.content)

Base64ImageItem(image) ==
    [type |-> "input_image", image_url |-> [data_url |-> DataUrl(image)]]

BuildBase64ImageItems(images) ==
    [i \in DOMAIN images |-> Base64ImageItem(images[i])]

----------------------------------------------------------------------------
(* _build_uploaded_image_items                                             *)

\* What client.files.create does for one call: it raises, or it returns a
\* response whose id is a non-empty string, or one with no (or an empty) id.
\* An id is <<"file", n>>, the n-th call's; the empty id is <<>>.
Raised == [raised |-> TRUE, id |-> <<>>]
Response(id) == [raised |-> FALSE, id |-> id]
FileId(n) == <<"file", n>>

\* Path(filename).name
RECURSIVE Basename(_)
Basename(filename) ==
    IF \E i \in DOMAIN filename : filename[i] = "/"
    THEN Basename(Tail(filename))
    ELSE filename

UploadedImageItem(file_id) ==
    [type |-> "input_image", image_url |-> [file_id |-> file_id]]

UploadStart == [items |-> <<>>, failed |-> <<>>, calls |-> <<>>]

\* Mutant: the lists of the upload loop grow at the front.
UploadStepPrepends(acc, image, outcome) ==
    LET call == [name |-> Basename(image.filename), content |-> image.content]
        file_id == IF outcome.raised THEN <<>> ELSE outcome.id
    IN  IF outcome.raised \/ file_id = <<>>
        THEN [acc EXCEPT !.failed = <<image>> \o @,
                         !.calls = Append(@, call)]
        ELSE [acc EXCEPT !.items = <<UploadedImageItem(file_id)>> \o @,
                         !.calls = Append(@, call)]

\* One iteration of the loop over images: the call of client.files.create
\* (recorded in calls) and what follows from its outcome.
UploadStep(acc, image, outcome) ==
    LET call == [name |-> Basename(image.filename), content |-> image.content]
        file_id == IF outcome.raised THEN <<>> ELSE outcome.id
    IN  IF outcome.raised \/ file_id = <<>>
        THEN [acc EXCEPT !.failed = Append(@, image),
                         !.calls = Append(@, call)]
        ELSE [acc EXCEPT !.items = Append(@, UploadedImageItem(file_id)),
                         !.calls = Append(@, call)]

RECURSIVE UploadLoop(_, _, _)
UploadLoop(acc, images, outcomes) ==
    IF images = <<>> THEN acc
    ELSE UploadLoop(UploadStep(acc, Head(images), Head(outcomes)),
                    Tail(images), Tail(outcomes))

\* io.openai: whether "from openai import OpenAI" succeeds; io.outcomes: the
\* outcome of the call of client.files.create for each image, in order.
BuildUploadedImageItems(images, io) ==
    IF ~io.openai
    THEN [items |-> <<>>, failed |-> images, calls |-> <<>>]
    ELSE UploadLoop(UploadStart, images, io.outcomes)

----------------------------------------------------------------------------
(* _build_input_items                                                      *)

InputText(text) == [type |-> "input_text", text |-> text]

InputBundle(scene_text, manifest_text, images) ==
    [scene_json_text |-> scene_text, views_manifest_text |-> manifest_text,
     images |-> images]

\* Mutant: the manifest item is there whether or not there is manifest text.
TextItemsAlwaysManifest(task_text, bundle) ==
    <<InputText(task_text),
      InputText(<<"SCENE_JSON:\n">> \o bundle.scene_json_text),
      InputText(<<"VIEWS_MANIFEST_JSON:\n">> \o bundle.views_manifest_text)>>

TextItems(task_text, bundle) ==
    <<InputText(task_text),
      InputText(<<"SCENE_JSON:\n">> \o bundle.scene_json_text)>>
    \o (IF bundle.views_manifest_text # <<>>
        THEN <<InputText(<<"VIEWS_MANIFEST_JSON:\n">> \o bundle.views_manifest_text)>>
        ELSE <<>>)

\* Mutant: an image whose upload failed is not encoded inline.
BuildRunNoFallback(task_text, bundle, use_uploads, io) ==
    LET text == TextItems(task_text, bundle) IN
    IF bundle.images = <<>> THEN [content |-> text, calls |-> <<>>]
    ELSE IF use_uploads
    THEN LET up == BuildUploadedImageItems(bundle.images, io) IN
         [content |-> text \o up.items, calls |-> up.calls]
    ELSE [content |-> text \o BuildBase64ImageItems(bundle.images),
          calls |-> <<>>]

\* Mutant: the images whose upload failed are sent inline before the
\* uploaded ones.
BuildRunFailedFirst(task_text, bundle, use_uploads, io) ==
    LET text == TextItems(task_text, bundle) IN
    IF bundle.images = <<>> THEN [content |-> text, calls |-> <<>>]
    ELSE IF use_uploads
    THEN LET up == BuildUploadedImageItems(bundle.images, io) IN
         [content |-> text
                       \o (IF up.failed # <<>>
                           THEN BuildBase64ImageItems(up.failed) ELSE <<>>)
                       \o up.items,
          calls |-> up.calls]
    ELSE [content |-> text \o BuildBase64ImageItems(bundle.images),
          calls |-> <<>>]

\* The content built, with the upload calls made on the way.
BuildRun(task_text, bundle, use_uploads, io) ==
    LET text == TextItems(task_text, bundle) IN
    IF bundle.images = <<>> THEN [content |-> text, calls |-> <<>>]
    ELSE IF use_uploads
    THEN LET up == BuildUploadedImageItems(bundle.images, io) IN
         [content |-> text \o up.items
                       \o (IF up.failed # <<>>
                           THEN BuildBase64ImageItems(up.failed) ELSE <<>>),
          calls |-> up.calls]
    ELSE [content |-> text \o BuildBase64ImageItems(bundle.images),
          calls |-> <<>>]

BuildInputItems(task_text, bundle, use_uploads, io) ==
    <<[type |-> "message", role |-> "user",
       content |-> BuildRun(task_text, bundle, use_uploads, io).content]>>

----------------------------------------------------------------------------
(* _load_scene_json and _load_views_manifest                               *)

\* A JSON file: whether it exists, whether it reads and parses, its text,
\* and the value json.loads gives.
JsonFile(exists, parses, text, json) ==
    [exists |-> exists, parses |-> parses, text |-> text, json |-> json]

\* The root of a scene export: whether it is an object, and its "objects".
SceneDoc(isDict, objectsTag) == [isDict |-> isDict, objects |-> objectsTag]

LoadSceneJson(file) ==
    IF ~file.exists THEN [ok |-> FALSE, error |-> "FileNotFoundError", text |-> <<>>]
    ELSE IF ~file.parses
    THEN [ok |-> FALSE, error |-> "Failed to parse scene JSON", text |-> <<>>]
    ELSE IF ~file.json.isDict
    THEN [ok |-> FALSE, error |-> "root must be an object", text |-> <<>>]
    ELSE IF file.json.objects # "list"
    THEN [ok |-> FALSE, error |-> "missing 'objects' array", text |-> <<>>]
    ELSE [ok |-> TRUE, error |-> "", text |-> file.text]

\* The root of a views manifest: whether it is an object, which of its keys
\* are present, and its "objects".
ManifestDoc(isDict, groupName, renderSettings, objects) ==
    [isDict |-> isDict, groupName |-> groupName,
     renderSettings |-> renderSettings, objects |-> objects]

\* The error the loop over views raises, "" if none.
\* Mutant: a view entry is only asked for its viewName.
RECURSIVE ViewsErrorFileOptional(_)
ViewsErrorFileOptional(views) ==
    IF views = <<>> THEN ""
    ELSE LET view == Head(views) IN
         IF ~view.isDict THEN "view entries must be objects"
         ELSE IF view.viewName.tag = "absent"
         THEN "view missing required keys"
         ELSE ViewsErrorFileOptional(Tail(views))

RECURSIVE ViewsError(_)
ViewsError(views) ==
    IF views = <<>> THEN ""
    ELSE LET view == Head(views) IN
         IF ~view.isDict THEN "view entries must be objects"
         ELSE IF view.viewName.tag = "absent" \/ view.file.tag = "absent"
         THEN "view missing required keys"
         ELSE ViewsError(Tail(views))

\* The error the loop over objects raises, "" if none.
RECURSIVE ObjectsError(_)
ObjectsError(objects) ==
    IF objects = <<>> THEN ""
    ELSE LET obj == Head(objects) IN
         IF ~obj.isDict THEN "object entries must be objects"
         ELSE IF obj.objectName.tag = "absent" \/ ~obj.stableId
                    \/ obj.views.tag = "absent"
         THEN "object missing required keys"
         ELSE IF obj.views.tag # "list" THEN "'views' must be a list"
         ELSE IF ViewsError(obj.views.val) # "" THEN ViewsError(obj.views.val)
         ELSE ObjectsError(Tail(objects))

ManifestError(file) ==
    IF ~file.exists THEN "FileNotFoundError"
    ELSE IF ~file.parses THEN "Failed to parse views manifest"
    ELSE IF ~file.json.isDict THEN "root must be an object"
    ELSE IF ~file.json.groupName \/ ~file.json.renderSettings
               \/ file.json.objects.tag = "absent"
    THEN "missing required keys"
    ELSE IF file.json.objects.tag # "list" THEN "'objects' must be a list"
    ELSE ObjectsError(file.json.objects.val)

LoadViewsManifest(file) ==
    LET error == ManifestError(file) IN
    IF error # ""
    THEN [ok |-> FALSE, error |-> error, objects |-> <<>>, text |-> <<>>]
    ELSE [ok |-> TRUE, error |-> "", objects |-> file.json.objects.val,
          text |-> file.text]

----------------------------------------------------------------------------
(* _parse_argv, _safe_dir_name, build_vivian_prompt                        *)

\* The keys of {name: "" for name in names}, in insertion order.
DictKeys(names) == DictKeysOf(names)

SafeChars == Range(UpperLetters) \cup Range(LowerLetters) \cup Range(Digits)
                \cup {".", "_", "-"}

\* re.sub(r"[^A-Za-z0-9._-]+", "_", value): every maximal run of other
\* characters becomes one "_".
RECURSIVE ReSubUnsafe(_, _)
ReSubUnsafe(value, inRun) ==
    IF value = <<>> THEN <<>>
    ELSE IF Head(value) \in SafeChars
    THEN <<Head(value)>> \o ReSubUnsafe(Tail(value), FALSE)
    ELSE (IF inRun THEN <<>> ELSE <<"_">>) \o ReSubUnsafe(Tail(value), TRUE)

SafeDirName(value) ==
    IF value = <<>> THEN <<"b","a","t","c","h">> ELSE ReSubUnsafe(value, FALSE)

\* sep.join(parts)
RECURSIVE Join(_, _)
Join(sep, parts) ==
    IF parts = <<>> THEN <<>>
    ELSE IF Len(parts) = 1 THEN parts[1]
    ELSE parts[1] \o sep \o Join(sep, Tail(parts))

\* str(n) for n >= 0
RECURSIVE IntStr(_)
IntStr(n) ==
    IF n < 10 THEN <<Digits[n + 1]>>
    ELSE IntStr(n \div 10) \o <<Digits[(n % 10) + 1]>>

IMAGE_ANALYSIS_TASK ==
    "Analyze object/parts using the images; use JSON files as structure; do NOT guess measurements."

\* objects: the keys of the dict, in order; every value is "".  The margin
\* that textwrap.dedent leaves in the text is not modelled.
BuildVivianPrompt(desc, objects) ==
    LET object_lines ==
            IF objects = <<>> THEN <<"(none provided)">>
            ELSE Join(<<"\n">>,
                      [i \in DOMAIN objects |-> <<"- ">> \o objects[i] \o <<": ">>])
    IN  <<"Create a complete Vivian FunctionalSpecification for the Unity scene below.",
          "\n\nScene desc:\n">>
        \o (IF desc # <<>> THEN desc
            ELSE <<"(no desc provided)">>)
        \o <<"\n\nInteraction objects (name -> interaction type):\n">>
        \o object_lines

----------------------------------------------------------------------------
(* The values the checks are run on.                                       *)

MaxViews == 3           \* views of an object, for _select_ordered_views
MaxCollectViews == 3    \* views of an object, for _collect_object_images
MaxManifest == 3        \* objects of a manifest, for _select_manifest_objects
MaxRequested == 3       \* requested names, for _select_manifest_objects
MaxItems == 5           \* selections, for _chunk_objects
MaxChunkSize == 3
MaxImages == 3          \* images of a bundle, for _build_input_items

GroupDir == <<"g">>

FileA == <<"v","/","a",".","p","n","g">>
FileC == <<"v","/","C",".","P","N","G">>
FileSeg == <<"v","/","b","_","S","e","g",".","p","n","g">>

BytesA == <<77>>
BytesC == <<255, 0>>
BytesSeg == <<0, 16, 131, 16>>

\* The group directory with none, one, two or all of the three files.
FileSystems ==
    { [p \in {} |-> <<>>],
      (PathJoin(GroupDir, FileA) :> BytesA),
      (PathJoin(GroupDir, FileA) :> BytesA)
        @@ (PathJoin(GroupDir, FileSeg) :> BytesSeg),
      (PathJoin(GroupDir, FileA) :> BytesA)
        @@ (PathJoin(GroupDir, FileC) :> BytesC)
        @@ (PathJoin(GroupDir, FileSeg) :> BytesSeg) }

NameT == <<"T">>
NameL == <<"L">>
NameG == <<"G">>

\* _select_ordered_views
SelectViewEntries ==
    {ViewEntry(n, f) :
        n \in {NameStr("left"), NameStr("front"), NameStr("iso_top_right"),
               NameStr("thumbnail"), NameNone},
        f \in {Str(FileA), Str(FileSeg), None}}
    \cup {ViewEntry(NameAbsent, Str(FileA)), NotADict}

\* _collect_object_images
CollectViewEntries ==
    {ViewEntry(NameStr(n), f) :
        n \in {"front", "back"},
        f \in {Str(FileA), Str(FileC), Str(FileSeg), None}}
    \cup {ViewEntry(NameStr("left"), Str(FileC)),
          ViewEntry(NameStr("thumbnail"), Str(FileA)),
          ViewEntry(NameNone, Str(FileA)), NotADict}

CollectObjects ==
    {ManifestObject(n, v) :
        n \in {Str(NameT), None},
        v \in {ViewList(vs) : vs \in SeqsUpTo(CollectViewEntries, MaxCollectViews)}
              \cup {ViewsNone, ViewsAbsent}}

\* _select_manifest_objects
ViewsOne == ViewList(<<ViewEntry(NameStr("front"), Str(FileA))>>)
ViewsTwo == ViewList(<<ViewEntry(NameStr("top"), Str(FileC))>>)

ManifestObjectPool ==
    {ManifestObject(Str(NameT), ViewsOne), ManifestObject(Str(NameT), ViewsTwo),
     ManifestObject(Str(NameL), ViewsOne), ManifestObject(None, ViewsOne),
     NotADictObject}

\* _chunk_objects
ChunkItems ==
    {ObjectImageSelection(n, <<>>, ORDERED_VIEW_NAMES, <<>>, <<>>, <<>>) :
        n \in {NameT, NameL}}

\* _build_input_items
BuildImages ==
    {ImagePayload(NameT, "front", FileA, ImagePng, BytesA),
     ImagePayload(NameT, "left", FileC, ImagePng, BytesC),
     ImagePayload(NameL, "top", FileSeg, ImagePng, BytesSeg)}

\* What the n-th call of client.files.create may do.
Outcomes(n) == {Raised, Response(<<>>), Response(FileId(n))}

OutcomeSeqs(n) == {o \in [1..n -> UNION {Outcomes(i) : i \in 1..n}] :
                      \A i \in 1..n : o[i] \in Outcomes(i)}

TaskText == <<IMAGE_ANALYSIS_TASK, "\n\n", "prompt">>
SceneText == <<"{scene}">>
ManifestText == <<"{manifest}">>

----------------------------------------------------------------------------
(* The state before main() starts, and while a single function is applied. *)

Unread == JsonFile(FALSE, FALSE, <<>>, SceneDoc(FALSE, "absent"))

NoBuild == [content |-> <<>>, pending |-> <<>>, up |-> UploadStart]

MainStart ==
    /\ scene_file = Unread
    /\ manifest_file = Unread
    /\ description = <<>>
    /\ object_interactions = <<>>
    /\ scene_json_text = <<>>
    /\ manifest_loaded = FALSE
    /\ views_manifest_text = <<>>
    /\ manifest_objects = <<>>
    /\ selected_manifest_objects = <<>>
    /\ object_selections = <<>>
    /\ batches = <<>>
    /\ index = 0
    /\ build = NoBuild
    /\ reads = <<>>
    /\ uploads = <<>>
    /\ pipeline = <<>>
    /\ exit_status = <<>>

\* A function applied on its own: Init draws its arguments, the one action
\* applies it.
InitCall(name, argSet) ==
    /\ fn = name
    /\ args \in argSet
    /\ ret = NoRet
    /\ pc = "call"
    /\ files = [p \in {} |-> <<>>]
    /\ MainStart

Return(name, value) ==
    /\ fn = name
    /\ pc = "call"
    /\ ret' = value
    /\ pc' = "done"
    /\ UNCHANGED <<fn, args, worldVars, mainVars, traceVars>>

\* _is_rgb_view_file(file_name): the names are a directory, a stem, a marker,
\* a tail and an extension put together, or None.
RgbDirs == {<<>>, <<"v","/">>, <<"x","_","S","E","G","/">>}
RgbStems == {<<"a">>, <<"B">>}
RgbMarkers ==
    {<<>>, <<"_","s","e","g">>, <<"_","S","e","g">>, <<"_","D","E","P","T","H">>,
     <<"_","n","o","r","m","a","l">>, <<"_","s","e">>, <<"s","e","g">>,
     <<"_","n","o","r","m">>}
RgbTails == {<<>>, <<"2">>}
RgbExtensions ==
    {<<".","p","n","g">>, <<".","P","N","G">>, <<".","p","N","g">>,
     <<".","j","p","g">>, <<"p","n","g">>, <<>>,
     <<".","p","n","g",".","b","a","k">>, <<".","p","n">>}
RgbFileNames ==
    {Str(d \o s \o m \o t \o x) :
        d \in RgbDirs, s \in RgbStems, m \in RgbMarkers, t \in RgbTails,
        x \in RgbExtensions}
    \cup {None}
InitRgb == InitCall("_is_rgb_view_file", [file_name : RgbFileNames])
CallIsRgbViewFile == Return("_is_rgb_view_file", IsRgbViewFile(args.file_name))
SpecRgb == InitRgb /\ [][CallIsRgbViewFile]_vars

\* _load_views_manifest(manifest_path): no file, a file that is not JSON, and
\* every root made of the keys present or not and of up to MaxLoadObjects
\* objects, sound or broken in one of the ways the loader looks for.
MaxLoadObjects == 2

LoadViews ==
    {ViewList(<<>>), ViewsOne,
     ViewList(<<ViewEntry(NameStr("front"), Str(FileA)),
                ViewEntry(NameNone, None)>>),
     ViewList(<<ViewEntry(NameStr("front"), Str(FileA)), NotADict>>),
     ViewList(<<ViewEntry(NameStr("front"), Str(FileA)),
                ViewEntry(NameStr("back"), Absent)>>),
     ViewList(<<ViewEntry(NameAbsent, Str(FileA))>>),
     ViewsNone, ViewsAbsent}

LoadObjects ==
    {ManifestObject(Str(NameT), v) : v \in LoadViews}
    \cup {ManifestObject(None, ViewsOne), ManifestObject(Absent, ViewsOne),
          [ManifestObject(Str(NameL), ViewsOne) EXCEPT !.stableId = FALSE],
          NotADictObject}

LoadDocs ==
    {ManifestDoc(isDict, groupName, renderSettings, objects) :
        isDict \in {TRUE}, groupName \in BOOLEAN, renderSettings \in BOOLEAN,
        objects \in {[tag |-> "list", val |-> objs] :
                        objs \in SeqsUpTo(LoadObjects, MaxLoadObjects)}
                    \cup {[tag |-> "absent", val |-> <<>>],
                          [tag |-> "nonlist", val |-> <<>>]}}
    \cup {ManifestDoc(FALSE, FALSE, FALSE, [tag |-> "absent", val |-> <<>>])}

LoadFiles ==
    {JsonFile(TRUE, TRUE, ManifestText, doc) : doc \in LoadDocs}
    \cup {JsonFile(e, FALSE, <<"{manifest">>,
                   ManifestDoc(FALSE, FALSE, FALSE, [tag |-> "absent", val |-> <<>>])) :
             e \in BOOLEAN}

InitLoad == InitCall("_load_views_manifest", [manifest_path : LoadFiles])
CallLoadViewsManifest ==
    Return("_load_views_manifest", LoadViewsManifest(args.manifest_path))
SpecLoad == InitLoad /\ [][CallLoadViewsManifest]_vars

\* _select_ordered_views(views)
InitViews ==
    InitCall("_select_ordered_views",
             [views : SeqsUpTo(SelectViewEntries, MaxViews)])
CallSelectOrderedViews ==
    Return("_select_ordered_views", SelectOrderedViews(args.views))
SpecViews == InitViews /\ [][CallSelectOrderedViews]_vars

\* _collect_object_images(group_dir, obj)
InitCollect ==
    InitCall("_collect_object_images",
             [fs : FileSystems, group_dir : {GroupDir}, obj : CollectObjects])
CallCollectObjectImages ==
    Return("_collect_object_images", CollectRun(args.fs, args.group_dir, args.obj))
SpecCollect == InitCollect /\ [][CallCollectObjectImages]_vars

\* _select_manifest_objects(manifest_objects, requested_names)
InitSelect ==
    InitCall("_select_manifest_objects",
             [manifest_objects : SeqsUpTo(ManifestObjectPool, MaxManifest),
              requested_names : SeqsUpTo({NameT, NameL, NameG}, MaxRequested)])
CallSelectManifestObjects ==
    Return("_select_manifest_objects",
           SelectManifestObjects(args.manifest_objects, args.requested_names))
SpecSelect == InitSelect /\ [][CallSelectManifestObjects]_vars

\* _chunk_objects(items, chunk_size)
InitChunk ==
    InitCall("_chunk_objects",
             [items : SeqsUpTo(ChunkItems, MaxItems),
              chunk_size : (0 - 1)..MaxChunkSize])
CallChunkObjects ==
    Return("_chunk_objects", ChunkObjects(args.items, args.chunk_size))
SpecChunk == InitChunk /\ [][CallChunkObjects]_vars

\* _build_input_items(task_text, bundle, use_uploads), with what the import
\* of openai and the calls of client.files.create do
BuildArgs ==
    UNION {[task_text : {TaskText},
            bundle : {InputBundle(t, m, images) :
                         t \in {<<>>, SceneText}, m \in {<<>>, ManifestText}},
            use_uploads : BOOLEAN,
            io : [openai : BOOLEAN, outcomes : OutcomeSeqs(Len(images))]] :
           images \in SeqsUpTo(BuildImages, MaxImages)}
InitBuild == InitCall("_build_input_items", BuildArgs)
CallBuildInputItems ==
    Return("_build_input_items",
           [items |-> BuildInputItems(args.task_text, args.bundle,
                                      args.use_uploads, args.io),
            calls |-> BuildRun(args.task_text, args.bundle,
                               args.use_uploads, args.io).calls])
SpecBuild == InitBuild /\ [][CallBuildInputItems]_vars

----------------------------------------------------------------------------
(* main                                                                    *)

MaxArgNames == 2        \* object names on the command line
MaxRunObjects == 3      \* objects of the manifest of a run

FsDir == <<"o","u","t">>

\* What the command line and the environment may hold.
Descriptions == {<<>>, <<"a toaster and a lamp">>}
ArgNames == SeqsUpTo({NameT, NameL, NameG}, MaxArgNames)

SceneFiles ==
    {JsonFile(FALSE, FALSE, <<>>, SceneDoc(FALSE, "absent")),
     JsonFile(TRUE, FALSE, <<"{scene">>, SceneDoc(FALSE, "absent")),
     JsonFile(TRUE, TRUE, <<"[]">>, SceneDoc(FALSE, "absent")),
     JsonFile(TRUE, TRUE, <<"{}">>, SceneDoc(TRUE, "absent")),
     JsonFile(TRUE, TRUE, <<"{objects: 1}">>, SceneDoc(TRUE, "nonlist")),
     JsonFile(TRUE, TRUE, SceneText, SceneDoc(TRUE, "list"))}

ObjT ==
    ManifestObject(Str(NameT),
        ViewList(<<ViewEntry(NameStr("left"), Str(FileC)),
                   ViewEntry(NameStr("front"), Str(FileA)),
                   ViewEntry(NameStr("back"), Str(FileSeg))>>))
ObjL == ManifestObject(Str(NameL), ViewList(<<ViewEntry(NameStr("top"), Str(FileA))>>))

ObjectList(objs) == [tag |-> "list", val |-> objs]

\* An object whose name has a character that _safe_dir_name replaces.
NameTL == <<"T"," ","L">>
ObjTL == ManifestObject(Str(NameTL), ViewList(<<ViewEntry(NameStr("top"), Str(FileA))>>))

\* Manifests that load: every list of up to MaxRunObjects of the two objects,
\* and the list of the three.
GoodManifests ==
    {JsonFile(TRUE, TRUE, ManifestText, ManifestDoc(TRUE, TRUE, TRUE, ObjectList(objs))) :
        objs \in SeqsUpTo({ObjT, ObjL}, MaxRunObjects) \cup {<<ObjT, ObjL, ObjTL>>}}

\* Manifests that do not: no file, no JSON, and one for each check of the loader.
BadManifestDocs ==
    {ManifestDoc(FALSE, FALSE, FALSE, ObjectList(<<>>)),
     ManifestDoc(TRUE, FALSE, TRUE, ObjectList(<<ObjT>>)),
     ManifestDoc(TRUE, TRUE, FALSE, ObjectList(<<ObjT>>)),
     ManifestDoc(TRUE, TRUE, TRUE, [tag |-> "absent", val |-> <<>>]),
     ManifestDoc(TRUE, TRUE, TRUE, [tag |-> "nonlist", val |-> <<>>]),
     ManifestDoc(TRUE, TRUE, TRUE, ObjectList(<<ObjT, NotADictObject>>)),
     ManifestDoc(TRUE, TRUE, TRUE, ObjectList(<<ObjT, ManifestObject(Absent, ViewsOne)>>)),
     ManifestDoc(TRUE, TRUE, TRUE, ObjectList(<<ObjT, [ObjL EXCEPT !.stableId = FALSE]>>)),
     ManifestDoc(TRUE, TRUE, TRUE, ObjectList(<<ObjT, ManifestObject(Str(NameL), ViewsAbsent)>>)),
     ManifestDoc(TRUE, TRUE, TRUE, ObjectList(<<ObjT, ManifestObject(Str(NameL), ViewsNone)>>)),
     ManifestDoc(TRUE, TRUE, TRUE,
         ObjectList(<<ObjT, ManifestObject(Str(NameL), ViewList(<<NotADict>>))>>)),
     ManifestDoc(TRUE, TRUE, TRUE,
         ObjectList(<<ObjT, ManifestObject(Str(NameL),
             ViewList(<<ViewEntry(NameStr("top"), Absent)>>))>>)),
     ManifestDoc(TRUE, TRUE, TRUE,
         ObjectList(<<ObjT, ManifestObject(Str(NameL),
             ViewList(<<ViewEntry(NameAbsent, Str(FileA))>>))>>))}

BadManifests ==
    {JsonFile(FALSE, FALSE, <<>>, ManifestDoc(FALSE, FALSE, FALSE, ObjectList(<<>>))),
     JsonFile(TRUE, FALSE, <<"{manifest">>, ManifestDoc(FALSE, FALSE, FALSE, ObjectList(<<>>)))}
    \cup {JsonFile(TRUE, TRUE, ManifestText, doc) : doc \in BadManifestDocs}

ManifestFiles == GoodManifests \cup BadManifests

\* The group directory of a run: FileA alone, or all three files.
RunFileSystems == {fs \in FileSystems : Cardinality(DOMAIN fs) \in {1, 3}}

\* What run_vivian may do: return a specification, return None, or raise.
PipelineResults == {"spec", "none", "raise"}

Init ==
    /\ fn = "main"
    /\ args = <<>>
    /\ ret = NoRet
    /\ pc = "start"
    /\ files \in RunFileSystems
    /\ MainStart

\* sys.exit(status), or an exception that nothing catches
Exit(status) ==
    /\ pc' = "exit"
    /\ exit_status' = <<status>>

\* Lines 435-458: the import of agents_vivian, OPENAI_API_KEY, the arguments.
Startup ==
    /\ fn = "main" /\ pc = "start"
    /\ \E agents \in BOOLEAN, api_key \in BOOLEAN, scene_json \in BOOLEAN,
          desc \in Descriptions, names \in ArgNames :
          IF ~agents \/ ~api_key \/ desc = <<>> \/ ~scene_json
          THEN /\ Exit(1)
               /\ UNCHANGED <<description, object_interactions>>
          ELSE /\ pc' = "load_scene"
               /\ description' = desc
               /\ object_interactions' = DictKeys(names)
               /\ UNCHANGED exit_status
    /\ UNCHANGED <<fn, args, ret, worldVars, scene_json_text, manifest_loaded,
                   views_manifest_text, manifest_objects,
                   selected_manifest_objects, object_selections, batches,
                   index, build, reads, uploads, pipeline>>

\* Mutant: a scene export that does not load is reported and the run goes
\* on without scene text.
LoadSceneContinues ==
    /\ fn = "main" /\ pc = "load_scene"
    /\ \E file \in SceneFiles :
          /\ scene_file' = file
          /\ scene_json_text' = IF LoadSceneJson(file).ok
                                THEN LoadSceneJson(file).text ELSE <<>>
          /\ pc' = "load_manifest"
          /\ UNCHANGED exit_status
    /\ UNCHANGED <<fn, args, ret, files, manifest_file, description,
                   object_interactions, manifest_loaded, views_manifest_text,
                   manifest_objects, selected_manifest_objects,
                   object_selections, batches, index, build, reads, uploads,
                   pipeline>>

\* Lines 473-478.
LoadScene ==
    /\ fn = "main" /\ pc = "load_scene"
    /\ \E file \in SceneFiles :
          /\ scene_file' = file
          /\ IF LoadSceneJson(file).ok
             THEN /\ scene_json_text' = LoadSceneJson(file).text
                  /\ pc' = "load_manifest"
                  /\ UNCHANGED exit_status
             ELSE /\ Exit(1)
                  /\ UNCHANGED scene_json_text
    /\ UNCHANGED <<fn, args, ret, files, manifest_file, description,
                   object_interactions, manifest_loaded, views_manifest_text,
                   manifest_objects, selected_manifest_objects,
                   object_selections, batches, index, build, reads, uploads,
                   pipeline>>

\* Mutant: a manifest that is missing or does not load ends the run.
LoadManifestAborts ==
    /\ fn = "main" /\ pc = "load_manifest"
    /\ \E file \in ManifestFiles :
          /\ manifest_file' = file
          /\ IF file.exists /\ LoadViewsManifest(file).ok
             THEN /\ manifest_loaded' = TRUE
                  /\ views_manifest_text' = LoadViewsManifest(file).text
                  /\ manifest_objects' = LoadViewsManifest(file).objects
                  /\ pc' = "select"
                  /\ UNCHANGED exit_status
             ELSE /\ Exit(1)
                  /\ UNCHANGED <<manifest_loaded, views_manifest_text,
                                 manifest_objects>>
    /\ UNCHANGED <<fn, args, ret, files, scene_file, description,
                   object_interactions, scene_json_text,
                   selected_manifest_objects, object_selections, batches,
                   index, build, reads, uploads, pipeline>>

\* Lines 480-496: a manifest that is not there, or that does not load, is
\* reported and the run goes on with manifest_loaded false.
LoadManifest ==
    /\ fn = "main" /\ pc = "load_manifest"
    /\ \E file \in ManifestFiles :
          /\ manifest_file' = file
          /\ IF file.exists /\ LoadViewsManifest(file).ok
             THEN /\ manifest_loaded' = TRUE
                  /\ views_manifest_text' = LoadViewsManifest(file).text
                  /\ manifest_objects' = LoadViewsManifest(file).objects
             ELSE /\ manifest_loaded' = FALSE
                  /\ views_manifest_text' = <<>>
                  /\ manifest_objects' = <<>>
    /\ pc' = "select"
    /\ UNCHANGED <<fn, args, ret, files, scene_file, description,
                   object_interactions, scene_json_text,
                   selected_manifest_objects, object_selections, batches,
                   index, build, traceVars>>

\* Lines 501-509.
SelectObjects ==
    /\ fn = "main" /\ pc = "select"
    /\ selected_manifest_objects' =
          IF manifest_loaded
          THEN SelectManifestObjects(manifest_objects, object_interactions).selected
          ELSE <<>>
    /\ pc' = "collect"
    /\ UNCHANGED <<fn, args, ret, worldVars, description, object_interactions,
                   scene_json_text, manifest_loaded, views_manifest_text,
                   manifest_objects, object_selections, batches, index, build,
                   traceVars>>

\* Lines 513-515: one iteration of the loop over selected_manifest_objects.
CollectNext ==
    /\ fn = "main" /\ pc = "collect"
    /\ manifest_loaded
    /\ Len(object_selections) < Len(selected_manifest_objects)
    /\ LET obj == selected_manifest_objects[Len(object_selections) + 1]
           run == CollectRun(files, GroupDir, obj)
       IN  /\ object_selections' = Append(object_selections, run.selection)
           /\ reads' = reads \o run.reads
    /\ UNCHANGED <<callVars, worldVars, description, object_interactions,
                   scene_json_text, manifest_loaded, views_manifest_text,
                   manifest_objects, selected_manifest_objects, batches, index,
                   build, uploads, pipeline, exit_status>>

\* Mutant: the batches are planned from the selections collected so far.
PlanBatchesBeforeCollected ==
    /\ fn = "main" /\ pc = "collect"
    /\ batches' = IF object_selections # <<>>
                  THEN ChunkObjects(object_selections, MAX_OBJECTS_PER_RUN)
                  ELSE << <<>> >>
    /\ index' = 1
    /\ pc' = "batch"
    /\ UNCHANGED <<fn, args, ret, worldVars, description, object_interactions,
                   scene_json_text, manifest_loaded, views_manifest_text,
                   manifest_objects, selected_manifest_objects,
                   object_selections, build, traceVars>>

\* Mutant: with nothing selected there is no batch and the run ends at once.
PlanBatchesSkipsEmptyRun ==
    /\ fn = "main" /\ pc = "collect"
    /\ ~manifest_loaded \/ Len(object_selections) = Len(selected_manifest_objects)
    /\ IF object_selections # <<>>
       THEN /\ batches' = ChunkObjects(object_selections, MAX_OBJECTS_PER_RUN)
            /\ index' = 1
            /\ pc' = "batch"
            /\ UNCHANGED exit_status
       ELSE /\ batches' = <<>>
            /\ index' = 1
            /\ Exit(0)
    /\ UNCHANGED <<fn, args, ret, worldVars, description, object_interactions,
                   scene_json_text, manifest_loaded, views_manifest_text,
                   manifest_objects, selected_manifest_objects,
                   object_selections, build, reads, uploads, pipeline>>

\* Lines 527-534, after the loop.
PlanBatches ==
    /\ fn = "main" /\ pc = "collect"
    /\ ~manifest_loaded \/ Len(object_selections) = Len(selected_manifest_objects)
    /\ batches' = IF object_selections # <<>>
                  THEN ChunkObjects(object_selections, MAX_OBJECTS_PER_RUN)
                  ELSE << <<>> >>
    /\ index' = 1
    /\ pc' = "batch"
    /\ UNCHANGED <<fn, args, ret, worldVars, description, object_interactions,
                   scene_json_text, manifest_loaded, views_manifest_text,
                   manifest_objects, selected_manifest_objects,
                   object_selections, build, traceVars>>

\* The names a batch is described by to build_vivian_prompt (lines 538-550):
\* the keys of batch_objects, in order.
BatchObjects(batch) ==
    IF batch # <<>>
    THEN DictKeysOf([i \in DOMAIN batch |-> batch[i].object_name])
    ELSE IF object_interactions # <<>> THEN object_interactions
    ELSE IF selected_manifest_objects # <<>>
    THEN DictKeysOf([i \in DOMAIN selected_manifest_objects |->
                        IF selected_manifest_objects[i].objectName.tag = "absent"
                        THEN UnnamedObject
                        ELSE selected_manifest_objects[i].objectName.val])
    ELSE <<>>

BatchImages(batch) == Concat([i \in DOMAIN batch |-> batch[i].images])

\* Lines 561-567.
OutputDir(batch, idx) ==
    IF Len(batches) > 1
    THEN LET joined == Join(<<"_">>,
                 [i \in DOMAIN batch |-> SafeDirName(batch[i].object_name)])
             batch_label == IF joined = <<>>
                            THEN <<"b","a","t","c","h","_">> \o IntStr(idx)
                            ELSE joined
         IN  PathJoin(FsDir, batch_label)
    ELSE FsDir

\* Lines 536-559 and 393-402: the batch's images, task text and bundle, the
\* text items of _build_input_items and, with images, the import of openai.
StartBatch ==
    /\ fn = "main" /\ pc = "batch"
    /\ LET batch == batches[index]
           batch_images == BatchImages(batch)
           task_text == <<IMAGE_ANALYSIS_TASK, "\n\n">>
                            \o BuildVivianPrompt(description, BatchObjects(batch))
           bundle == InputBundle(scene_json_text, views_manifest_text, batch_images)
           text == TextItems(task_text, bundle)
       IN  IF bundle.images # <<>>
           THEN /\ \E openai \in BOOLEAN :
                      build' = IF openai
                               THEN [content |-> text, pending |-> bundle.images,
                                     up |-> UploadStart]
                               ELSE [content |-> text, pending |-> <<>>,
                                     up |-> BuildUploadedImageItems(
                                               bundle.images,
                                               [openai |-> FALSE, outcomes |-> <<>>])]
                /\ pc' = "upload"
           ELSE /\ build' = [content |-> text, pending |-> <<>>, up |-> UploadStart]
                /\ pc' = "pipeline"
    /\ UNCHANGED <<fn, args, ret, worldVars, description, object_interactions,
                   scene_json_text, manifest_loaded, views_manifest_text,
                   manifest_objects, selected_manifest_objects,
                   object_selections, batches, index, traceVars>>

\* Mutant: after an upload that fails the images left are not tried; they
\* go to failed with it.
UploadNextStopsOnFailure ==
    /\ fn = "main" /\ pc = "upload"
    /\ build.pending # <<>>
    /\ \E outcome \in Outcomes(Len(uploads) + 1) :
          /\ build' =
                IF outcome.raised \/ outcome.id = <<>>
                THEN [build EXCEPT !.up.failed = @ \o build.pending,
                                   !.pending = <<>>]
                ELSE [build EXCEPT
                         !.up = UploadStep(@, Head(build.pending), outcome),
                         !.pending = Tail(@)]
          /\ uploads' = Append(uploads,
                               [batch |-> index,
                                filename |-> Head(build.pending).filename,
                                outcome |-> outcome])
    /\ UNCHANGED <<callVars, worldVars, description, object_interactions,
                   scene_json_text, manifest_loaded, views_manifest_text,
                   manifest_objects, selected_manifest_objects,
                   object_selections, batches, index, reads, pipeline,
                   exit_status>>

\* Lines 375-387: one iteration of the loop of _build_uploaded_image_items.
UploadNext ==
    /\ fn = "main" /\ pc = "upload"
    /\ build.pending # <<>>
    /\ \E outcome \in Outcomes(Len(uploads) + 1) :
          /\ build' = [build EXCEPT
                          !.up = UploadStep(@, Head(build.pending), outcome),
                          !.pending = Tail(@)]
          /\ uploads' = Append(uploads,
                               [batch |-> index,
                                filename |-> Head(build.pending).filename,
                                outcome |-> outcome])
    /\ UNCHANGED <<callVars, worldVars, description, object_interactions,
                   scene_json_text, manifest_loaded, views_manifest_text,
                   manifest_objects, selected_manifest_objects,
                   object_selections, batches, index, reads, pipeline,
                   exit_status>>

\* Mutant: once the content of a batch is built, the next batch is built;
\* run_vivian is only invoked for the last one.
FinishBuildThenNextBatch ==
    /\ fn = "main" /\ pc = "upload"
    /\ build.pending = <<>>
    /\ build' = [build EXCEPT
                    !.content = @ \o build.up.items
                                  \o (IF build.up.failed # <<>>
                                      THEN BuildBase64ImageItems(build.up.failed)
                                      ELSE <<>>)]
    /\ IF index < Len(batches)
       THEN /\ index' = index + 1
            /\ pc' = "batch"
       ELSE /\ pc' = "pipeline"
            /\ UNCHANGED index
    /\ UNCHANGED <<fn, args, ret, worldVars, description, object_interactions,
                   scene_json_text, manifest_loaded, views_manifest_text,
                   manifest_objects, selected_manifest_objects,
                   object_selections, batches, traceVars>>

\* Lines 403-405, after the loop: the uploaded items, then the others inline.
FinishBuild ==
    /\ fn = "main" /\ pc = "upload"
    /\ build.pending = <<>>
    /\ build' = [build EXCEPT
                    !.content = @ \o build.up.items
                                  \o (IF build.up.failed # <<>>
                                      THEN BuildBase64ImageItems(build.up.failed)
                                      ELSE <<>>)]
    /\ pc' = "pipeline"
    /\ UNCHANGED <<fn, args, ret, worldVars, description, object_interactions,
                   scene_json_text, manifest_loaded, views_manifest_text,
                   manifest_objects, selected_manifest_objects,
                   object_selections, batches, index, traceVars>>

\* Mutant: a batch whose run_vivian raises or returns None is given up and
\* the run goes on with the next batch.
RunPipelineSkipsFailedBatch ==
    /\ fn = "main" /\ pc = "pipeline"
    /\ \E result \in PipelineResults :
          /\ pipeline' = Append(pipeline,
                 [batch |-> index,
                  content |-> <<[type |-> "message", role |-> "user",
                                 content |-> build.content]>>,
                  output_dir |-> OutputDir(batches[index], index),
                  result |-> result])
          /\ IF index < Len(batches)
             THEN /\ index' = index + 1
                  /\ pc' = "batch"
                  /\ UNCHANGED exit_status
             ELSE /\ Exit(IF result # "spec" THEN 1 ELSE 0)
                  /\ UNCHANGED index
    /\ UNCHANGED <<fn, args, ret, worldVars, description, object_interactions,
                   scene_json_text, manifest_loaded, views_manifest_text,
                   manifest_objects, selected_manifest_objects,
                   object_selections, batches, build, reads, uploads>>

\* Lines 561-577: run_vivian for the batch, then the next batch or the end.
RunPipeline ==
    /\ fn = "main" /\ pc = "pipeline"
    /\ \E result \in PipelineResults :
          /\ pipeline' = Append(pipeline,
                 [batch |-> index,
                  content |-> <<[type |-> "message", role |-> "user",
                                 content |-> build.content]>>,
                  output_dir |-> OutputDir(batches[index], index),
                  result |-> result])
          /\ IF result # "spec"
             THEN /\ Exit(1)
                  /\ UNCHANGED index
             ELSE IF index < Len(batches)
             THEN /\ index' = index + 1
                  /\ pc' = "batch"
                  /\ UNCHANGED exit_status
             ELSE /\ Exit(0)
                  /\ UNCHANGED index
    /\ UNCHANGED <<fn, args, ret, worldVars, description, object_interactions,
                   scene_json_text, manifest_loaded, views_manifest_text,
                   manifest_objects, selected_manifest_objects,
                   object_selections, batches, build, reads, uploads>>

Next ==
    \/ Startup
    \/ LoadScene
    \/ LoadManifest
    \/ SelectObjects
    \/ CollectNext
    \/ PlanBatches
    \/ StartBatch
    \/ UploadNext
    \/ FinishBuild
    \/ RunPipeline

Spec == Init /\ [][Next]_vars

----------------------------------------------------------------------------
(* Vocabulary of the properties.                                           *)

Done(name) == fn = name /\ pc = "done"

Canonical == Range(ORDERED_VIEW_NAMES)

NoRepeats(s) == \A i, j \in DOMAIN s : s[i] = s[j] => i = j

\* a is b with some elements left out
RECURSIVE IsSubsequence(_, _)
IsSubsequence(a, b) ==
    IF a = <<>> THEN TRUE
    ELSE IF b = <<>> THEN FALSE
    ELSE IF Head(a) = Head(b) THEN IsSubsequence(Tail(a), Tail(b))
    ELSE IsSubsequence(a, Tail(b))

RemoveAt(s, j) == SubSeq(s, 1, j - 1) \o SubSeq(s, j + 1, Len(s))

\* The entry of views is a dict whose viewName is the str n.
Named(views, i, n) == views[i].isDict /\ views[i].viewName = NameStr(n)

\* The names that some entry of views carries.
Present(views) == {n \in Canonical \cup {"thumbnail"} :
                      \E i \in DOMAIN views : Named(views, i, n)}

\* The earliest entry of views that carries the name n.
FirstNamed(views, n) ==
    views[CHOOSE i \in DOMAIN views :
              Named(views, i, n) /\ \A j \in 1..(i - 1) : ~Named(views, j, n)]

----------------------------------------------------------------------------
(* _select_ordered_views: C7, C8.                                          *)

\* C7: found is the canonical enumeration restricted to the view names
\* present in the input, ordered_views[i] carries the name found[i], and an
\* entry whose name is not canonical is in none of the three outputs.
C7_FoundIsCanonicalOrder ==
    Done("_select_ordered_views") =>
        LET present == Present(args.views) IN
        /\ ret.found = SelectSeq(ORDERED_VIEW_NAMES, LAMBDA n : n \in present)
        /\ DOMAIN ret.ordered_views = DOMAIN ret.found
        /\ \A i \in DOMAIN ret.found :
              /\ ret.ordered_views[i] \in Range(args.views)
              /\ ret.ordered_views[i].isDict
              /\ ret.ordered_views[i].viewName = NameStr(ret.found[i])
        /\ \A i \in DOMAIN args.views :
              LET e == args.views[i] IN
              (~e.isDict \/ ~IsStr(e.viewName) \/ e.viewName.val \notin Canonical) =>
                  /\ e \notin Range(ret.ordered_views)
                  /\ IsStr(e.viewName) =>
                        e.viewName.val \notin Range(ret.found) \cup Range(ret.missing)

\* An input with canonical names out of canonical order, a name that is not
\* canonical and an entry without a str name.
C7_Witness ==
    /\ Done("_select_ordered_views")
    /\ ret.found = <<"front", "left">>
    /\ Len(args.views) = 3
    /\ Named(args.views, 1, "left")
    /\ Named(args.views, 2, "thumbnail")
    /\ Named(args.views, 3, "front")

\* C8: of several entries with one viewName the earliest is the one returned,
\* and removing a later one, or changing its file, changes no output.
C8_FirstSeenWins ==
    Done("_select_ordered_views") =>
        \A i, j \in DOMAIN args.views :
            (i < j /\ args.views[i].isDict /\ IsStr(args.views[i].viewName)
                   /\ args.views[j].isDict
                   /\ args.views[j].viewName = args.views[i].viewName) =>
                /\ SelectOrderedViews(RemoveAt(args.views, j)) = ret
                /\ \A f \in {Str(FileA), Str(FileSeg), None, Absent} :
                      SelectOrderedViews(
                          [args.views EXCEPT ![j] = ViewEntry(args.views[i].viewName, f)])
                      = ret
                /\ \A k \in DOMAIN ret.found :
                      ret.found[k] = args.views[i].viewName.val =>
                          ret.ordered_views[k]
                              = FirstNamed(args.views, ret.found[k])

\* Two entries named front with different files, the first one returned.
C8_Witness ==
    /\ Done("_select_ordered_views")
    /\ Len(args.views) = 2
    /\ args.views[1] = ViewEntry(NameStr("front"), Str(FileSeg))
    /\ args.views[2] = ViewEntry(NameStr("front"), Str(FileA))
    /\ ret.ordered_views = <<args.views[1]>>

----------------------------------------------------------------------------
(* _collect_object_images: C4, C5, C6.                                     *)

SpecReconcile ==
    (InitViews \/ InitCollect)
        /\ [][CallSelectOrderedViews \/ CallCollectObjectImages]_vars

\* The selected views of the object in canonical order: for every canonical
\* name that some entry carries, the earliest such entry.
SelectedViews(views) ==
    LET names == SelectSeq(ORDERED_VIEW_NAMES, LAMBDA n : n \in Present(views))
    IN  [i \in DOMAIN names |-> FirstNamed(views, names[i])]

WellFormed(e) == IsStr(e.viewName) /\ IsStr(e.file)
Rejected(e) == WellFormed(e) /\ ~IsRgbViewFile(e.file)
NotThere(fs, dir, e) ==
    WellFormed(e) /\ ~Rejected(e) /\ PathJoin(dir, e.file.val) \notin DOMAIN fs
Loadable(fs, dir, e) ==
    WellFormed(e) /\ ~Rejected(e) /\ PathJoin(dir, e.file.val) \in DOMAIN fs

\* C4: every selected view with a str viewName and file lands in exactly one
\* of skipped_views (by name, its file neither tested nor read),
\* missing_files (by file) and images (name, file, image/png and the bytes).
C4_ThreeWayClassification ==
    (Done("_collect_object_images") /\ args.obj.views.tag = "list") =>
        LET sel == ret.selection
            fs == args.fs
            dir == args.group_dir
            sv == SelectedViews(args.obj.views.val)
            skipped == SelectSeq(sv, Rejected)
            notThere == SelectSeq(sv, LAMBDA e : NotThere(fs, dir, e))
            loadable == SelectSeq(sv, LAMBDA e : Loadable(fs, dir, e))
        IN  /\ sel.skipped_views = [i \in DOMAIN skipped |-> skipped[i].viewName.val]
            /\ sel.missing_files = [i \in DOMAIN notThere |-> notThere[i].file.val]
            /\ sel.images =
                  [i \in DOMAIN loadable |->
                      [object_name |-> sel.object_name,
                       view_name |-> loadable[i].viewName.val,
                       filename |-> loadable[i].file.val,
                       mime_type |-> ImagePng,
                       content |-> fs[PathJoin(dir, loadable[i].file.val)]]]
            /\ Len(sel.skipped_views) + Len(sel.missing_files) + Len(sel.images)
                  = Len(SelectSeq(sv, WellFormed))
            /\ \A i \in DOMAIN skipped :
                  PathJoin(dir, skipped[i].file.val)
                      \notin Range(ret.exists) \cup Range(ret.reads)
            /\ Range(ret.reads) \subseteq DOMAIN fs

\* The scenario of the tests: front is there, back is a segmentation pass
\* whose file is there too, left is not there.
C4_Witness ==
    /\ Done("_collect_object_images")
    /\ args.obj.views.tag = "list"
    /\ PathJoin(GroupDir, FileSeg) \in DOMAIN args.fs
    /\ ret.selection.found_views = <<"front", "back", "left">>
    /\ ret.selection.skipped_views = <<"back">>
    /\ ret.selection.missing_files = <<FileC>>
    /\ Len(ret.selection.images) = 1
    /\ ret.selection.images[1].view_name = "front"
    /\ ret.selection.images[1].content = BytesA

\* C5: skipped_views is a subset of found_views, and the view names of images
\* are a subsequence of found_views without repeats, none of them skipped and
\* none with a file recorded in missing_files.
C5_SelectionInvariant ==
    Done("_collect_object_images") =>
        LET sel == ret.selection
            imageViews == [i \in DOMAIN sel.images |-> sel.images[i].view_name]
        IN  /\ Range(sel.skipped_views) \subseteq Range(sel.found_views)
            /\ IsSubsequence(imageViews, sel.found_views)
            /\ NoRepeats(imageViews)
            /\ Range(imageViews) \cap Range(sel.skipped_views) = {}
            /\ \A i \in DOMAIN sel.images :
                  sel.images[i].filename \notin Range(sel.missing_files)

\* Images, a skipped view and a missing file in one selection, the views
\* given out of canonical order.
C5_Witness ==
    /\ Done("_collect_object_images")
    /\ args.obj.views.tag = "list"
    /\ Len(args.obj.views.val) = 3
    /\ Named(args.obj.views.val, 1, "left")
    /\ Named(args.obj.views.val, 3, "front")
    /\ Len(ret.selection.images) = 1
    /\ Len(ret.selection.skipped_views) = 1
    /\ Len(ret.selection.missing_files) = 1

\* C6: the found and the missing names are disjoint and together are the
\* eight canonical names, for _select_ordered_views and for every selection
\* of _collect_object_images.
C6_FoundMissingPartition ==
    /\ Done("_select_ordered_views") =>
          /\ Range(ret.found) \cap Range(ret.missing) = {}
          /\ Range(ret.found) \cup Range(ret.missing) = Canonical
    /\ Done("_collect_object_images") =>
          /\ Range(ret.selection.found_views)
                \cap Range(ret.selection.missing_views) = {}
          /\ Range(ret.selection.found_views)
                \cup Range(ret.selection.missing_views) = Canonical

\* A selection with two names found and six missing.
C6_Witness ==
    /\ Done("_collect_object_images")
    /\ ret.selection.found_views = <<"front", "left">>
    /\ Len(ret.selection.missing_views) = 6

----------------------------------------------------------------------------
(* _select_manifest_objects: C10.                                          *)

\* Some dict of objs has the str name as its objectName.
InManifest(objs, name) ==
    \E i \in DOMAIN objs : objs[i].isDict /\ objs[i].objectName = Str(name)

\* C10: with requested names, every occurrence of a name goes, in request
\* order, to selected (as a manifest object of that name) if the manifest has
\* one and to missing otherwise; no other object is selected.
C10_RequestOrderSelection ==
    (Done("_select_manifest_objects") /\ args.requested_names # <<>>) =>
        LET objs == args.manifest_objects
            req == args.requested_names
            hits == SelectSeq(req, LAMBDA n : InManifest(objs, n))
            misses == SelectSeq(req, LAMBDA n : ~InManifest(objs, n))
        IN  /\ ret.missing = misses
            /\ DOMAIN ret.selected = DOMAIN hits
            /\ \A k \in DOMAIN hits :
                  /\ ret.selected[k] \in Range(objs)
                  /\ ret.selected[k].isDict
                  /\ ret.selected[k].objectName = Str(hits[k])
            /\ Len(ret.selected) + Len(ret.missing) = Len(req)

\* L and T requested in that order and both selected from a manifest that
\* lists T first, with a requested name the manifest does not have.
C10_Witness ==
    /\ Done("_select_manifest_objects")
    /\ args.requested_names = <<NameL, NameG, NameT>>
    /\ Len(args.manifest_objects) = 2
    /\ args.manifest_objects[1].objectName = Str(NameT)
    /\ args.manifest_objects[2].objectName = Str(NameL)
    /\ ret.selected = <<args.manifest_objects[2], args.manifest_objects[1]>>
    /\ ret.missing = <<NameG>>

----------------------------------------------------------------------------
(* _build_input_items: C2, C3.                                             *)

\* The 6-bit value of a character of the base64 alphabet.
B64Value(c) == (CHOOSE v \in DOMAIN B64Alphabet : B64Alphabet[v] = c) - 1

\* The bytes that a padded base64 text stands for.
RECURSIVE B64Decode(_)
B64Decode(text) ==
    IF Len(text) < 4 THEN <<>>
    ELSE LET v1 == B64Value(text[1])
             v2 == B64Value(text[2])
         IN  IF text[3] = "=" THEN <<v1 * 4 + v2 \div 16>>
             ELSE IF text[4] = "="
             THEN <<v1 * 4 + v2 \div 16,
                    (v2 % 16) * 16 + B64Value(text[3]) \div 4>>
             ELSE <<v1 * 4 + v2 \div 16,
                    (v2 % 16) * 16 + B64Value(text[3]) \div 4,
                    (B64Value(text[3]) % 4) * 64 + B64Value(text[4])>>
                  \o B64Decode(SubSeq(text, 5, Len(text)))

DataUrlPrefix ==
    <<"d","a","t","a",":","i","m","a","g","e","/","p","n","g",
      ";","b","a","s","e","6","4",",">>

\* item is an image item that holds the bytes of image as a base64 data URL.
IsDataUrlOf(item, image) ==
    /\ item.type = "input_image"
    /\ DOMAIN item.image_url = {"data_url"}
    /\ LET url == item.image_url.data_url IN
       /\ Len(url) >= Len(DataUrlPrefix)
       /\ SubSeq(url, 1, Len(DataUrlPrefix)) = DataUrlPrefix
       /\ B64Decode(SubSeq(url, Len(DataUrlPrefix) + 1, Len(url))) = image.content

\* item is an image item that refers to an uploaded file by the id given.
IsFileRef(item, id) ==
    /\ item.type = "input_image"
    /\ DOMAIN item.image_url = {"file_id"}
    /\ item.image_url.file_id = id

\* The image items of the message built.
BuiltImageItems ==
    SelectSeq(ret.items[1].content, LAMBDA item : item.type = "input_image")

\* The upload of image i was asked for and gave a file id.
Uploaded(i) ==
    /\ args.use_uploads
    /\ args.io.openai
    /\ ~args.io.outcomes[i].raised
    /\ args.io.outcomes[i].id # <<>>

\* item is what image i is to be sent as.
ItemOfImage(item, i) ==
    IF Uploaded(i) THEN IsFileRef(item, args.io.outcomes[i].id)
    ELSE IsDataUrlOf(item, args.bundle.images[i])

Bijections(n) ==
    {f \in [1..n -> 1..n] : \A i, j \in 1..n : f[i] = f[j] => i = j}

\* C3: one image item per image, a file reference iff uploads are preferred
\* and the image's upload gave an id, its bytes as a base64 data URL
\* otherwise; with use_uploads false client.files.create is never called.
C3_OneItemPerImage ==
    Done("_build_input_items") =>
        LET n == Len(args.bundle.images) IN
        /\ Len(ret.items) = 1
        /\ Len(BuiltImageItems) = n
        /\ \E f \in Bijections(n) :
              \A i \in 1..n : ItemOfImage(BuiltImageItems[f[i]], i)
        /\ ~args.use_uploads => ret.calls = <<>>
        /\ (args.use_uploads /\ args.io.openai) => Len(ret.calls) = n

\* Three images with uploads preferred: one upload raises, one gives no id,
\* one gives an id.
C3_Witness ==
    /\ Done("_build_input_items")
    /\ args.use_uploads
    /\ args.io.openai
    /\ Len(args.bundle.images) = 3
    /\ args.io.outcomes = <<Raised, Response(FileId(2)), Response(<<>>)>>
    /\ Len(BuiltImageItems) = 3

\* C2 as stated: item i is what image i is sent as, whatever the outcomes of
\* the uploads.
C2_ItemsInInputOrder ==
    Done("_build_input_items") =>
        /\ Len(BuiltImageItems) = Len(args.bundle.images)
        /\ \A i \in DOMAIN args.bundle.images : ItemOfImage(BuiltImageItems[i], i)

\* No upload that failed comes before one that gave an id.
NoFailureBeforeSuccess ==
    \A i, j \in DOMAIN args.bundle.images :
        (i < j /\ Uploaded(j)) => Uploaded(i)

\* C2 as amended: the items keep the order of the images among the uploaded
\* images and among the others, the uploaded ones first; item i is what
\* image i is sent as whenever no failed upload comes before a successful one.
C2_OrderWithinEachPass ==
    Done("_build_input_items") =>
        LET n == Len(args.bundle.images) IN
        /\ Len(BuiltImageItems) = n
        /\ \E f \in Bijections(n) :
              /\ \A i \in 1..n : ItemOfImage(BuiltImageItems[f[i]], i)
              /\ \A i, j \in 1..n :
                    (i < j /\ Uploaded(i) = Uploaded(j)) => f[i] < f[j]
              /\ \A i, j \in 1..n :
                    (Uploaded(i) /\ ~Uploaded(j)) => f[i] < f[j]
        /\ NoFailureBeforeSuccess =>
              \A i \in 1..n : ItemOfImage(BuiltImageItems[i], i)

\* The first upload fails, the second and third succeed: the first image is
\* sent last.
C2_Witness ==
    /\ Done("_build_input_items")
    /\ args.use_uploads
    /\ args.io.openai
    /\ Len(args.bundle.images) = 3
    /\ args.io.outcomes = <<Raised, Response(FileId(2)), Response(FileId(3))>>
    /\ IsFileRef(BuiltImageItems[1], FileId(2))
    /\ IsFileRef(BuiltImageItems[2], FileId(3))
    /\ IsDataUrlOf(BuiltImageItems[3], args.bundle.images[1])

----------------------------------------------------------------------------
(* C1: a views manifest that does not load.                                *)

\* main has been to the manifest and it was missing or did not load.
ManifestFailed ==
    /\ fn = "main"
    /\ manifest_file # Unread
    /\ ~(manifest_file.exists /\ LoadViewsManifest(manifest_file).ok)

\* The input items handed to run_vivian by its k-th invocation.
Submitted(k) == pipeline[k].content[1].content

\* C1, as stated: when the views manifest does not load (no file, no JSON,
\* a root that is not an object, a required key missing from the root, an
\* object or a view), the run aborts before a batch is built: run_vivian is
\* never invoked and the process ends with a failure status.
C1_ManifestFailureAborts ==
    ManifestFailed =>
        /\ batches = <<>>
        /\ pipeline = <<>>
        /\ pc = "exit" => exit_status = <<1>>

\* C1, amended: when the views manifest does not load, the run goes on
\* without it: nothing is selected, no image is read or uploaded, the one
\* batch is the empty batch, run_vivian is invoked once, with the task and
\* the scene text alone, and the exit status is that of this invocation:
\* success when it returns a specification, failure otherwise.
C1_ManifestFailureContinues ==
    ManifestFailed =>
        /\ ~manifest_loaded
        /\ views_manifest_text = <<>>
        /\ selected_manifest_objects = <<>>
        /\ object_selections = <<>>
        /\ reads = <<>> /\ uploads = <<>>
        /\ pc \in {"batch", "upload", "pipeline", "exit"} => batches = << <<>> >>
        /\ Len(pipeline) <= 1
        /\ \A k \in DOMAIN pipeline :
              /\ Len(Submitted(k)) = 2
              /\ \A i \in 1..2 : Submitted(k)[i].type = "input_text"
              /\ pipeline[k].output_dir = FsDir
        /\ pc = "exit" =>
              /\ Len(pipeline) = 1
              /\ exit_status = IF pipeline[1].result = "spec" THEN <<0>> ELSE <<1>>

\* A manifest with an object that has no views key: the run ends in success
\* after one invocation of run_vivian.
C1_Witness ==
    /\ ManifestFailed
    /\ manifest_file.exists /\ manifest_file.parses
    /\ manifest_file.json.isDict
    /\ pc = "exit"
    /\ exit_status = <<0>>
    /\ Len(pipeline) = 1

----------------------------------------------------------------------------
(* C9: _chunk_objects, and the batches of a run.                           *)

SpecBatching == (InitChunk \/ Init) /\ [][CallChunkObjects \/ Next]_vars

ImageItemCount(items) ==
    Cardinality({i \in DOMAIN items : items[i].type = "input_image"})

\* C9: the chunks of _chunk_objects, concatenated in order, are the items;
\* with chunk_size > 0 no chunk has more than chunk_size items and every
\* chunk but the last has exactly chunk_size; with chunk_size <= 0 there is
\* one chunk, of all the items.  So every batch of a run has at most
\* MAX_OBJECTS_PER_RUN = 2 objects, the batches concatenated are the
\* selected objects, and the k-th invocation of run_vivian is given batch k.
C9_ChunksPartitionItems ==
    /\ Done("_chunk_objects") =>
          LET items == args.items
              chunk_size == args.chunk_size
          IN  /\ Concat(ret) = items
              /\ chunk_size > 0 =>
                    \A i \in DOMAIN ret :
                       /\ Len(ret[i]) <= chunk_size
                       /\ i < Len(ret) => Len(ret[i]) = chunk_size
              /\ chunk_size <= 0 => ret = <<items>>
    /\ (fn = "main" /\ batches # <<>> /\ object_selections # <<>>) =>
          /\ MAX_OBJECTS_PER_RUN = 2
          /\ \A i \in DOMAIN batches : Len(batches[i]) <= MAX_OBJECTS_PER_RUN
          /\ Concat(batches) = object_selections
          /\ Len(pipeline) <= Len(batches)
          /\ \A k \in DOMAIN pipeline :
                /\ pipeline[k].batch = k
                /\ ImageItemCount(Submitted(k)) = Len(BatchImages(batches[k]))

\* Three selected objects: a batch of two, then a batch of one, both
\* submitted.
C9_Witness ==
    /\ fn = "main" /\ pc = "exit"
    /\ Len(object_selections) = 3
    /\ Len(batches) = 2
    /\ Len(batches[1]) = 2 /\ Len(batches[2]) = 1
    /\ Len(pipeline) = 2
    /\ exit_status = <<0>>

----------------------------------------------------------------------------
(* _select_manifest_objects without requested names: C11.                  *)

\* C11: with no requested name, selected is manifest_objects as it is, every
\* entry in its place, and missing is empty.
C11_EmptyRequestSelectsAll ==
    (Done("_select_manifest_objects") /\ args.requested_names = <<>>) =>
        /\ Len(ret.selected) = Len(args.manifest_objects)
        /\ \A i \in DOMAIN args.manifest_objects :
              ret.selected[i] = args.manifest_objects[i]
        /\ ret.missing = <<>>

\* No requested name and a manifest of three entries: two objects of one
\* name and an entry that is not an object.
C11_Witness ==
    /\ Done("_select_manifest_objects")
    /\ args.requested_names = <<>>
    /\ Len(args.manifest_objects) = 3
    /\ args.manifest_objects[1].objectName = Str(NameT)
    /\ args.manifest_objects[2] = NotADictObject
    /\ args.manifest_objects[3].objectName = Str(NameT)
    /\ args.manifest_objects[1] # args.manifest_objects[3]
    /\ Len(ret.selected) = 3

----------------------------------------------------------------------------
(* _collect_object_images for an object without a list of views: C12.     *)

\* C12: when the views of the object are absent or not a list, the selection
\* returned has no found view, image, missing file or skipped view, its
\* missing views are the eight canonical names in canonical order, and no
\* path was tested or read on the way.
C12_NoViewsIsTotalMiss ==
    (Done("_collect_object_images") /\ args.obj.views.tag # "list") =>
        /\ ret.selection.found_views = <<>>
        /\ ret.selection.images = <<>>
        /\ ret.selection.missing_files = <<>>
        /\ ret.selection.skipped_views = <<>>
        /\ ret.selection.missing_views =
              <<"front", "back", "left", "right", "top", "bottom",
                "iso_top_left", "iso_top_right">>
        /\ ret.exists = <<>>
        /\ ret.reads = <<>>

\* An object with no views key, in a group directory that has the three
\* files.
C12_Witness ==
    /\ Done("_collect_object_images")
    /\ args.obj.views = ViewsAbsent
    /\ args.obj.objectName = Str(NameT)
    /\ Cardinality(DOMAIN args.fs) = 3
    /\ Len(ret.selection.missing_views) = 8

----------------------------------------------------------------------------
(* _is_rgb_view_file: C13.                                                 *)

\* text, lowercased, has sub at some place.
Occurs(sub, text) ==
    \E head, rest \in 0..Len(text) :
        /\ head + Len(sub) + rest = Len(text)
        /\ \A i \in DOMAIN sub : LowerChar(text[head + i]) = sub[i]

\* C13: the classifier returns a boolean, and returns true exactly for a
\* string whose lowercased form ends with ".png" and has none of "_seg",
\* "_depth", "_normal" anywhere, directories included; for a value that is
\* not a string it returns false.
C13_ClassifierIsExact ==
    Done("_is_rgb_view_file") =>
        /\ ret \in BOOLEAN
        /\ ret <=>
              /\ args.file_name.tag = "str"
              /\ LET text == args.file_name.val
                     n == Len(text)
                 IN  /\ n >= 4
                     /\ LowerChar(text[n - 3]) = "."
                     /\ LowerChar(text[n - 2]) = "p"
                     /\ LowerChar(text[n - 1]) = "n"
                     /\ LowerChar(text[n]) = "g"
                     /\ ~Occurs(<<"_","s","e","g">>, text)
                     /\ ~Occurs(<<"_","d","e","p","t","h">>, text)
                     /\ ~Occurs(<<"_","n","o","r","m","a","l">>, text)

\* A PNG whose directory, not its base name, has "_SEG": rejected.
C13_Witness ==
    /\ Done("_is_rgb_view_file")
    /\ args.file_name = Str(<<"x","_","S","E","G","/","B",".","P","N","G">>)
    /\ ret = FALSE

----------------------------------------------------------------------------
(* _build_input_items with uploads: C14.                                   *)

\* The content of the one message returned.
BuiltContent == ret.items[1].content

\* The indices of the images, in list order, that P holds of.
IndicesWhere(P(_)) ==
    SelectSeq([i \in DOMAIN args.bundle.images |-> i], P)

UploadedIndices == IndicesWhere(LAMBDA i : Uploaded(i))
FailedIndices == IndicesWhere(LAMBDA i : ~Uploaded(i))

\* C14: with use_uploads and at least one image, the content is text items,
\* then a file reference for each image whose upload gave an id, in list
\* order, then a base64 data URL for each other image, in list order.
C14_UploadedThenFailed ==
    (Done("_build_input_items") /\ args.use_uploads /\ args.bundle.images # <<>>) =>
        LET texts == Len(BuiltContent) - Len(args.bundle.images)
            ups == Len(UploadedIndices)
        IN  /\ texts >= 0
            /\ \A i \in 1..texts : BuiltContent[i].type = "input_text"
            /\ \A k \in DOMAIN UploadedIndices :
                  IsFileRef(BuiltContent[texts + k],
                            args.io.outcomes[UploadedIndices[k]].id)
            /\ \A k \in DOMAIN FailedIndices :
                  IsDataUrlOf(BuiltContent[texts + ups + k],
                              args.bundle.images[FailedIndices[k]])

\* Three images of which the second is not uploaded: its data URL is the
\* last item, after the file references of the first and the third.
C14_Witness ==
    /\ Done("_build_input_items")
    /\ args.use_uploads /\ args.io.openai
    /\ Len(args.bundle.images) = 3
    /\ args.bundle.views_manifest_text # <<>>
    /\ args.io.outcomes = <<Response(FileId(1)), Raised, Response(FileId(3))>>
    /\ Len(BuiltContent) = 6
    /\ IsFileRef(BuiltContent[4], FileId(1))
    /\ IsFileRef(BuiltContent[5], FileId(3))
    /\ IsDataUrlOf(BuiltContent[6], args.bundle.images[2])

----------------------------------------------------------------------------
(* The text items of _build_input_items: C15.                              *)

\* C15: the content starts with the text item of task_text, then the text
\* item of the scene JSON text, then, iff there is manifest text, the text
\* item of the manifest text; every item after these is an image item.
C15_TextItemsFirst ==
    Done("_build_input_items") =>
        LET bundle == args.bundle
            texts == IF bundle.views_manifest_text # <<>> THEN 3 ELSE 2
        IN  /\ Len(BuiltContent) >= texts
            /\ BuiltContent[1] = [type |-> "input_text", text |-> args.task_text]
            /\ BuiltContent[2] =
                  [type |-> "input_text",
                   text |-> <<"SCENE_JSON:\n">> \o bundle.scene_json_text]
            /\ bundle.views_manifest_text # <<>> =>
                  BuiltContent[3] =
                     [type |-> "input_text",
                      text |-> <<"VIEWS_MANIFEST_JSON:\n">>
                                  \o bundle.views_manifest_text]
            /\ \A i \in DOMAIN BuiltContent :
                  i > texts => BuiltContent[i].type = "input_image"

\* No manifest text and two images, the first not uploaded: two text items,
\* then the two image items.
C15_Witness ==
    /\ Done("_build_input_items")
    /\ args.bundle.views_manifest_text = <<>>
    /\ args.bundle.scene_json_text # <<>>
    /\ args.use_uploads /\ args.io.openai
    /\ args.io.outcomes = <<Raised, Response(FileId(2))>>
    /\ Len(BuiltContent) = 4
    /\ BuiltContent[3].type = "input_image"

----------------------------------------------------------------------------
(* A batch whose pipeline call fails: C16.                                 *)

\* C16: an invocation of run_vivian that raises or returns None is the last
\* thing the run does: the process has exited with status 1, the batch was
\* submitted once, and no image of a later batch was uploaded and no later
\* batch submitted.
C16_PipelineFailureEndsRun ==
    \A k \in DOMAIN pipeline :
        pipeline[k].result # "spec" =>
            /\ pc = "exit"
            /\ exit_status = <<1>>
            /\ k = Len(pipeline)
            /\ \A j \in DOMAIN pipeline :
                  pipeline[j].batch = pipeline[k].batch => j = k
            /\ \A u \in DOMAIN uploads : uploads[u].batch <= pipeline[k].batch

\* Two batches, both with images; run_vivian raises for the first, whose
\* images alone were uploaded.
C16_Witness ==
    /\ fn = "main" /\ pc = "exit"
    /\ Len(batches) = 2
    /\ BatchImages(batches[1]) # <<>>
    /\ BatchImages(batches[2]) # <<>>
    /\ Len(pipeline) = 1
    /\ pipeline[1].result = "raise"
    /\ uploads # <<>>
    /\ exit_status = <<1>>

----------------------------------------------------------------------------
(* _load_views_manifest: C17.                                              *)

\* What the claim asks of a view entry, of an object entry and of the file.
ViewHasKeys(view) ==
    /\ view.isDict
    /\ view.viewName.tag # "absent"
    /\ view.file.tag # "absent"

ObjectHasKeys(obj) ==
    /\ obj.isDict
    /\ obj.objectName.tag # "absent"
    /\ obj.stableId
    /\ obj.views.tag = "list"
    /\ \A i \in DOMAIN obj.views.val : ViewHasKeys(obj.views.val[i])

ManifestHasKeys(file) ==
    /\ file.exists /\ file.parses
    /\ file.json.isDict
    /\ file.json.groupName /\ file.json.renderSettings
    /\ file.json.objects.tag = "list"
    /\ \A i \in DOMAIN file.json.objects.val :
          ObjectHasKeys(file.json.objects.val[i])

\* C17: the loader succeeds only for a file that is there, is JSON, has an
\* object as root with groupName, renderSettings and a list of objects, each
\* an object with objectName, stableId and a list of views, each an object
\* with viewName and file; for any other file it fails with an error and
\* returns nothing of the manifest.
C17_LoaderIsStrict ==
    Done("_load_views_manifest") =>
        /\ ret.ok => ManifestHasKeys(args.manifest_path)
        /\ ~ManifestHasKeys(args.manifest_path) =>
              /\ ~ret.ok
              /\ ret.error # ""
              /\ ret.objects = <<>>
              /\ ret.text = <<>>

\* A manifest whose first object is sound and whose second has, after a
\* sound view, a view without the file key: the load fails.
C17_Witness ==
    /\ Done("_load_views_manifest")
    /\ args.manifest_path.json.groupName
    /\ args.manifest_path.json.renderSettings
    /\ args.manifest_path.json.objects.tag = "list"
    /\ Len(args.manifest_path.json.objects.val) = 2
    /\ ObjectHasKeys(args.manifest_path.json.objects.val[1])
    /\ args.manifest_path.json.objects.val[2].views =
          ViewList(<<ViewEntry(NameStr("front"), Str(FileA)),
                     ViewEntry(NameStr("back"), Absent)>>)
    /\ ~ret.ok
    /\ ret.error = "view missing required keys"

----------------------------------------------------------------------------
(* A scene export that does not load: C18.                                 *)

\* C18: when main reads a scene export that is missing, is not JSON, has a
\* root that is not an object or has no "objects" list, _load_scene_json
\* fails and that step ends the process with status 1: the manifest has not
\* been read, nothing is selected, no image read or uploaded, run_vivian not
\* invoked; and no step is taken after the exit.
C18_SceneFailureAborts ==
    [][/\ pc # "exit"
       /\ (pc = "load_scene" /\ ~( /\ scene_file'.exists
                                    /\ scene_file'.parses
                                    /\ scene_file'.json.isDict
                                    /\ scene_file'.json.objects = "list" )) =>
             /\ ~LoadSceneJson(scene_file').ok
             /\ pc' = "exit"
             /\ exit_status' = <<1>>
             /\ manifest_file' = Unread
             /\ ~manifest_loaded'
             /\ selected_manifest_objects' = <<>>
             /\ object_selections' = <<>>
             /\ batches' = <<>>
             /\ reads' = <<>>
             /\ uploads' = <<>>
             /\ pipeline' = <<>>]_vars

\* The arguments were accepted and the scene export is an object without
\* "objects": the process has exited with status 1.
C18_Witness ==
    /\ fn = "main" /\ pc = "exit"
    /\ description # <<>>
    /\ scene_file.exists /\ scene_file.parses
    /\ scene_file.json.isDict
    /\ scene_file.json.objects = "absent"
    /\ exit_status = <<1>>
    /\ pipeline = <<>>

----------------------------------------------------------------------------
(* View entries whose viewName or file is not a str: C19.                  *)

\* The view named n left a trace in the selection: its name in skipped_views
\* or on an image.
Recorded(selection, n) ==
    \/ n \in Range(selection.skipped_views)
    \/ \E i \in DOMAIN selection.images : selection.images[i].view_name = n

\* C19: the call returns a selection in which a selected view whose file is
\* not a str is in none of skipped_views, missing_files and images, as
\* little as the entries whose viewName is not a str; every other selected
\* view is in one of the three, whatever comes before it.
C19_NonStrViewsAreIgnored ==
    (Done("_collect_object_images") /\ args.obj.views.tag = "list") =>
        LET sel == ret.selection
            sv == SelectedViews(args.obj.views.val)
        IN  /\ \A k \in DOMAIN sv :
                  IF IsStr(sv[k].file)
                  THEN \/ Recorded(sel, sv[k].viewName.val)
                       \/ sv[k].file.val \in Range(sel.missing_files)
                  ELSE ~Recorded(sel, sv[k].viewName.val)
            /\ Len(sel.skipped_views) + Len(sel.missing_files) + Len(sel.images)
                  = Cardinality({k \in DOMAIN sv : IsStr(sv[k].file)})
            /\ \A i \in DOMAIN sel.missing_files :
                  \E k \in DOMAIN sv : sv[k].file = Str(sel.missing_files[i])

\* front has no file name, the second entry no view name, back is sound:
\* the image of back is the one thing collected.
C19_Witness ==
    /\ Done("_collect_object_images")
    /\ args.obj.views =
          ViewList(<<ViewEntry(NameStr("front"), None),
                     ViewEntry(NameNone, Str(FileA)),
                     ViewEntry(NameStr("back"), Str(FileA))>>)
    /\ PathJoin(GroupDir, FileA) \in DOMAIN args.fs
    /\ ret.selection.found_views = <<"front", "back">>
    /\ ret.selection.skipped_views = <<>>
    /\ ret.selection.missing_files = <<>>
    /\ Len(ret.selection.images) = 1
    /\ ret.selection.images[1].view_name = "back"

----------------------------------------------------------------------------
(* _select_ordered_views on a permuted input: C20.                         *)

DistinctViewNames(views) ==
    \A i, j \in DOMAIN views :
        views[i].viewName = views[j].viewName => i = j

\* C20: for views with pairwise distinct viewNames, the call on any
\* permutation of them returns the ordered_views, found and missing that the
\* call on them returned.
C20_PermutationInsensitive ==
    (Done("_select_ordered_views") /\ DistinctViewNames(args.views)) =>
        \A p \in Bijections(Len(args.views)) :
            LET permuted == [i \in DOMAIN args.views |-> args.views[p[i]]]
                other == SelectOrderedViews(permuted)
            IN  /\ other.ordered_views = ret.ordered_views
                /\ other.found = ret.found
                /\ other.missing = ret.missing

\* Three views given as left, iso_top_right, front: returned as front, left,
\* iso_top_right, as for any other order of the three.
C20_Witness ==
    /\ Done("_select_ordered_views")
    /\ Len(args.views) = 3
    /\ Named(args.views, 1, "left")
    /\ Named(args.views, 2, "iso_top_right")
    /\ Named(args.views, 3, "front")
    /\ ret.found = <<"front", "left", "iso_top_right">>
    /\ ret.ordered_views = <<args.views[3], args.views[1], args.views[2]>>

----------------------------------------------------------------------------
(* The batches of a run, one after the other: C21.                         *)

\* C21: whatever is being built, uploaded or submitted is for the batch
\* right after the ones whose run_vivian call has returned a specification;
\* the k-th call is for batch k, with its objects in its task text; the
\* uploads are made batch after batch, none for a batch beyond the current
\* one.
C21_BatchesSerialized ==
    (fn = "main" /\ batches # <<>>) =>
        /\ pc \in {"batch", "upload", "pipeline"} => index = Len(pipeline) + 1
        /\ Len(pipeline) <= Len(batches)
        /\ \A k \in DOMAIN pipeline :
              /\ pipeline[k].batch = k
              /\ k < Len(pipeline) => pipeline[k].result = "spec"
              /\ Submitted(k)[1].text =
                    <<IMAGE_ANALYSIS_TASK, "\n\n">>
                       \o BuildVivianPrompt(description, BatchObjects(batches[k]))
        /\ \A u \in DOMAIN uploads :
              /\ uploads[u].batch <= index
              /\ uploads[u].batch <= Len(pipeline) + 1
              /\ \A v \in DOMAIN uploads :
                    u < v => uploads[u].batch <= uploads[v].batch

\* The images of the second batch are being uploaded; run_vivian has
\* returned for the first batch, and only for it.
C21_Witness ==
    /\ fn = "main" /\ pc = "upload"
    /\ Len(batches) = 2
    /\ index = 2
    /\ Len(pipeline) = 1
    /\ pipeline[1].result = "spec"
    /\ \E u \in DOMAIN uploads : uploads[u].batch = 1
    /\ \E u \in DOMAIN uploads : uploads[u].batch = 2

----------------------------------------------------------------------------
(* The images in memory: C22.                                              *)

\* The batch that the i-th selected object goes to.
BatchOf(i) == (i + MAX_OBJECTS_PER_RUN - 1) \div MAX_OBJECTS_PER_RUN

\* The batches that the images held in object_selections are for.
BatchesInMemory ==
    {BatchOf(i) : i \in {j \in DOMAIN object_selections :
                            object_selections[j].images # <<>>}}

\* C22, as stated: the image bytes in memory are those of one batch at
\* most, and no image of a batch is read before run_vivian has returned for
\* the batches before it.
C22_OneBatchInMemory ==
    fn = "main" =>
        /\ Cardinality(BatchesInMemory) <= 1
        /\ \A b \in BatchesInMemory : b <= Len(pipeline) + 1

\* The images of every selection.
ImagesInMemory ==
    Concat([i \in DOMAIN object_selections |-> object_selections[i].images])

\* C22, amended: images are read only while the selections are collected,
\* before a batch is planned, an image uploaded or run_vivian invoked; when
\* the batches are planned every selected object has its selection, and the
\* images of all the batches, one read each, are in memory from then on.
C22_AllImagesLoadedFirst ==
    fn = "main" =>
        /\ Len(reads) = Len(ImagesInMemory)
        /\ \A i \in DOMAIN ImagesInMemory :
              /\ reads[i] = PathJoin(GroupDir, ImagesInMemory[i].filename)
              /\ ImagesInMemory[i].content = files[reads[i]]
        /\ pc = "collect" => batches = <<>> /\ uploads = <<>> /\ pipeline = <<>>
        /\ batches # <<>> =>
              /\ Len(object_selections) = Len(selected_manifest_objects)
              /\ Concat([b \in DOMAIN batches |-> BatchImages(batches[b])])
                    = ImagesInMemory

\* Before the first batch is built the images of both batches have been
\* read.
C22_Witness ==
    /\ fn = "main" /\ pc = "batch"
    /\ index = 1
    /\ pipeline = <<>> /\ uploads = <<>>
    /\ Len(batches) = 2
    /\ BatchImages(batches[1]) # <<>>
    /\ BatchImages(batches[2]) # <<>>
    /\ BatchesInMemory = {1, 2}
    /\ Len(reads) >= 3

----------------------------------------------------------------------------
(* The upload attempts of a batch: C23.                                    *)

\* The calls of client.files.create made for batch b, in order.
UploadsOf(b) == SelectSeq(uploads, LAMBDA u : u.batch = b)

\* The image items of the content submitted for batch k.
SubmittedImageItems(k) ==
    SelectSeq(Submitted(k), LAMBDA item : item.type = "input_image")

\* Each image of batch b has had its one upload attempt, in list order.
OneAttemptEach(b) ==
    /\ Len(UploadsOf(b)) = Len(BatchImages(batches[b]))
    /\ \A i \in DOMAIN UploadsOf(b) :
          UploadsOf(b)[i].filename = BatchImages(batches[b])[i].filename

\* While images of the batch wait for their attempt, no image item has been
\* added to the content, inline or other.
NoItemBeforeLastAttempt ==
    (fn = "main" /\ pc = "upload" /\ build.pending # <<>>) =>
        /\ ImageItemCount(build.content) = 0
        /\ Len(build.up.items) + Len(build.up.failed) + Len(build.pending)
              = Len(BatchImages(batches[index]))

\* C23, as stated: every image of a batch gets exactly one upload attempt,
\* whatever the outcome of the attempts before it, and nothing is encoded
\* inline before the last attempt of the batch.
C23_OneAttemptPerImage ==
    /\ \A k \in DOMAIN pipeline : OneAttemptEach(k)
    /\ NoItemBeforeLastAttempt

\* C23, amended: for a batch either the upload client could not be imported,
\* and then no upload is attempted and every image is sent inline, in list
\* order; or every image gets exactly one attempt, in list order, whatever
\* the outcome of the attempts before it.  Nothing is encoded inline before
\* the last attempt of the batch.
C23_OneAttemptEachOrNone ==
    /\ \A k \in DOMAIN pipeline :
          \/ OneAttemptEach(k)
          \/ /\ UploadsOf(k) = <<>>
             /\ Len(SubmittedImageItems(k)) = Len(BatchImages(batches[k]))
             /\ \A i \in DOMAIN SubmittedImageItems(k) :
                   IsDataUrlOf(SubmittedImageItems(k)[i],
                               BatchImages(batches[k])[i])
    /\ NoItemBeforeLastAttempt

\* A batch of two images: the upload of the first raises, the second is
\* attempted all the same and gives an id; the batch has been submitted.
C23_Witness ==
    /\ fn = "main"
    /\ Len(pipeline) >= 1
    /\ Len(BatchImages(batches[1])) = 2
    /\ Len(UploadsOf(1)) = 2
    /\ UploadsOf(1)[1].outcome = Raised
    /\ UploadsOf(1)[2].outcome = Response(FileId(2))
    /\ IsFileRef(SubmittedImageItems(1)[1], FileId(2))
    /\ IsDataUrlOf(SubmittedImageItems(1)[2], BatchImages(batches[1])[1])

----------------------------------------------------------------------------
(* The number of invocations of run_vivian: C24.                           *)

\* max(1, ceil(n / 2))
ExpectedInvocations(n) == IF n = 0 THEN 1 ELSE (n + 1) \div 2

\* C24: a run that ends with status 0 (the scene loaded and every call of
\* run_vivian returned a specification) has invoked run_vivian
\* max(1, ceil(n / 2)) times for its n selected objects; with n = 0 the one
\* invocation is for the one, empty, batch and has no image item.
C24_InvocationCount ==
    (fn = "main" /\ pc = "exit" /\ exit_status = <<0>>) =>
        LET n == Len(selected_manifest_objects) IN
        /\ Len(object_selections) = n
        /\ Len(pipeline) = ExpectedInvocations(n)
        /\ \A k \in DOMAIN pipeline : pipeline[k].result = "spec"
        /\ n = 0 =>
              /\ batches = << <<>> >>
              /\ ImageItemCount(Submitted(1)) = 0

\* A manifest of two objects loads, but the one requested name matches
\* neither: the run ends in success after one invocation.
C24_Witness ==
    /\ fn = "main" /\ pc = "exit" /\ exit_status = <<0>>
    /\ manifest_loaded
    /\ Len(manifest_objects) = 2
    /\ object_interactions = <<NameG>>
    /\ selected_manifest_objects = <<>>
    /\ Len(pipeline) = 1

----------------------------------------------------------------------------
(* The output directories of the batches: C25.                             *)

\* C25: in a run of more than one batch, the invocations of run_vivian for
\* two batches are given two output directories.
C25_DistinctOutputDirs ==
    (fn = "main" /\ Len(batches) > 1) =>
        \A j, k \in DOMAIN pipeline :
            j # k => pipeline[j].output_dir # pipeline[k].output_dir

----------------------------------------------------------------------------
(* Manifest objects of one name: C26.                                      *)

\* The places of the manifest that have an object of the name.
PlacesOf(objs, name) ==
    {i \in DOMAIN objs : objs[i].isDict /\ objs[i].objectName = Str(name)}

LastPlaceOf(objs, name) ==
    CHOOSE i \in PlacesOf(objs, name) : \A j \in PlacesOf(objs, name) : j <= i

\* C26: with requested names, a name that the manifest has is resolved to
\* the last object of that name in the manifest, each time it is requested;
\* an earlier object of the name that is not equal to the last one is never
\* selected.
C26_LastObjectOfNameWins ==
    (Done("_select_manifest_objects") /\ args.requested_names # <<>>) =>
        LET objs == args.manifest_objects
            hits == SelectSeq(args.requested_names,
                              LAMBDA n : PlacesOf(objs, n) # {})
        IN  /\ Len(ret.selected) = Len(hits)
            /\ \A k \in DOMAIN hits :
                  ret.selected[k] = objs[LastPlaceOf(objs, hits[k])]
            /\ \A i \in DOMAIN objs :
                  (/\ objs[i].isDict
                   /\ IsStr(objs[i].objectName)
                   /\ PlacesOf(objs, objs[i].objectName.val) # {}
                   /\ objs[i] # objs[LastPlaceOf(objs, objs[i].objectName.val)]) =>
                      objs[i] \notin Range(ret.selected)

\* Two objects named T with different views, T requested: the second one is
\* selected.
C26_Witness ==
    /\ Done("_select_manifest_objects")
    /\ args.requested_names = <<NameT>>
    /\ args.manifest_objects =
          <<ManifestObject(Str(NameT), ViewsOne), ManifestObject(Str(NameT), ViewsTwo)>>
    /\ ret.selected = <<ManifestObject(Str(NameT), ViewsTwo)>>
    /\ ret.missing = <<>>

----------------------------------------------------------------------------
(* The lengths of the lists of a selection: C27.                           *)

\* The entries that _select_ordered_views picks from the views of the
\* object, none when the views are not a list.
SelectedOf(obj) ==
    IF obj.views.tag = "list" THEN SelectedViews(obj.views.val) ELSE <<>>

\* C27: found_views is at least as long as skipped_views, missing_files and
\* images together, and exactly as long iff every selected entry has a str
\* file; a selected entry without one is in found_views, not in
\* missing_views, and in none of the three.
C27_FoundCoversTheRest ==
    Done("_collect_object_images") =>
        LET sel == ret.selection
            sv == SelectedOf(args.obj)
            rest == Len(sel.skipped_views) + Len(sel.missing_files) + Len(sel.images)
        IN  /\ Len(sel.found_views) >= rest
            /\ Len(sel.found_views) = rest <=>
                  \A k \in DOMAIN sv : IsStr(sv[k].file)
            /\ Len(sel.found_views) - rest =
                  Cardinality({k \in DOMAIN sv : ~IsStr(sv[k].file)})
            /\ \A k \in DOMAIN sv :
                  ~IsStr(sv[k].file) =>
                      /\ sv[k].viewName.val \in Range(sel.found_views)
                      /\ sv[k].viewName.val \notin Range(sel.missing_views)
                      /\ ~Recorded(sel, sv[k].viewName.val)

\* back has no file name and front is a segmentation pass: two found views,
\* one skipped, nothing else.
C27_Witness ==
    /\ Done("_collect_object_images")
    /\ args.obj.views =
          ViewList(<<ViewEntry(NameStr("back"), None),
                     ViewEntry(NameStr("front"), Str(FileSeg))>>)
    /\ ret.selection.found_views = <<"front", "back">>
    /\ ret.selection.skipped_views = <<"front">>
    /\ ret.selection.missing_files = <<>>
    /\ ret.selection.images = <<>>
    /\ "back" \notin Range(ret.selection.missing_views)

============================================================================
